---- MODULE Spec2Model ----
(***************************************************************************)
(* tgParser: the harvest tick.                                             *)
(*                                                                         *)
(* Part I  (SpecLock): the tick scheduler and its Redis lock               *)
(*         (worker.py main / acquire_lock / release_lock / _lock_refresher *)
(*         and tick_once.py _run_once).                                    *)
(* Part II: the relational store and the passes that mutate it             *)
(*         (selector, parser engine, health pass, membership maintenance,  *)
(*         operator actions of the bot UI).                                *)
(*         Spec         one parse pass, message by message                 *)
(*         SpecFleet    health, parse and maintenance passes with the      *)
(*                      operator's account actions and the clock           *)
(*         SpecJoin     the join paths: parse, maintenance, join-on-add    *)
(*         SpecSelector the selector over drawn rows                       *)
(***************************************************************************)
EXTENDS Integers, Sequences, FiniteSets, TLC

(***************************************************************************)
(* Part I.  Scheduler and lock                                             *)
(***************************************************************************)

\* settings.tick_interval_seconds (default)
tick_interval_seconds == 3600

\* _lock_refresher(interval_s=30): the refresher's sleep between two EXPIREs
interval_s == 30

Max2(a, b) == IF a >= b THEN a ELSE b

\* LOCK_TTL_SECONDS = max(60 * 55, settings.tick_interval_seconds + 300)
LOCK_TTL_SECONDS == Max2(60 * 55, tick_interval_seconds + 300)

\* Number of worker processes (replicas of worker.main) in the model.
NWorkers == 1

\* Cap on the number of runs that get past acquisition (tokens drawn, tick ids).
MaxRuns == 2

Workers == 1..NWorkers
\* The single-shot process (tick_once._run_once), started again and again.
Once == 0
Procs == Workers \cup {Once}

\* "no value": an absent Redis key, token = None, no tick_id yet
None == 0

VARIABLES
    lock,       \* Redis key tgparser:tick:lock: [value, ttl]; value = None: absent
    seq,        \* Redis key tgparser:tick:seq
    lastTick,   \* field tick_id of the Redis hash tgparser:tick:last (None: unset)
    drawn,      \* number of tokens drawn by successful acquisitions so far
    pc,         \* where each process is in main / _run_once
    token,      \* each process's local `token`
    tick_id,    \* each process's local `tick_id`
    refresher,  \* each worker's refresher task: "none", "sleeping", "due"
    raised,     \* whether the process's tick() raised
    force,      \* the single-shot run's --force flag
    exitCode,   \* the single-shot run's return value (-1: none yet)
    winners,    \* history: processes whose acquire_lock succeeded during the
                \* lifetime of the current lock key
    attempts,   \* history: processes whose current round called acquire_lock during
                \* the lifetime of the current lock key (the creating call included)
    act         \* history: the last Redis lock command, <<name, process, token>>

lockVars == <<lock, seq, lastTick, drawn, pc, token, tick_id, refresher, raised,
              force, exitCode, winners, attempts, act>>



(***************************************************************************)
(* Part II declarations (the store), placed here so that both specifications *)
(* range over all variables.                                               *)
(***************************************************************************)

\* Accounts and channels in the store (rows of accounts / channels).
NAccounts == 2
NChannels == 1
\* Channels in the store when a whole tick (health pass, parse pass, tick meta) runs.
NTickChannels == 2
\* Upstream message ids are 1..MaxMsgId; one fetch returns at most MaxFetch messages.
MaxMsgId == 2
MaxFetch == 2
\* while attempts < 8
MaxAttempts == 8
\* iter_messages(entity, limit=20): first parse without backfill
FirstParseLimit == 20
\* iter_messages(entity, limit=2000): first parse with backfill
BackfillLimit == 2000
\* The wall clock runs over 0..MaxTime; FloodWait carries 0..MaxFlood seconds.
MaxTime == 2
MaxFlood == 1
\* Number of operator actions (bot UI) in one behaviour: on channels, on accounts.
MaxChannelOps == 2
MaxAccountOps == 1
\* Number of passes of each kind (parse, health, maintenance) in one behaviour.
MaxPasses == 1

Accounts == 1..NAccounts
Channels == 1..NChannels
MsgIds == 1..MaxMsgId

\* SQL NULL of a nullable timestamp column (cooldown_until, last_used_at)
NULL == -1

AccountStatus == {"active", "cooldown", "banned", "auth_required", "forbidden", "error"}
ChannelType == {"public", "private"}
ChannelAccessStatus ==
    {"active", "join_requested", "pending_approval", "joined", "forbidden", "error"}
\* AccountChannelStatus, with "norow" for an absent membership row
AccountChannelStatus ==
    {"unknown", "join_requested", "pending_approval", "joined", "forbidden", "error"}
NoRow == "norow"
PendingStatuses == {"join_requested", "pending_approval"}

\* Exceptions the attempt loop tells apart (parser_engine.py:452-542):
\*   Config           TelethonConfigError
\*   FloodWait        errors.FloodWaitError (carries seconds)
\*   Banned           PhoneNumberBannedError, UserDeactivatedBanError
\*   Deactivated      UserDeactivatedError
\*   ChannelForbidden ChannelPrivateError, ChatAdminRequiredError, ...
\*   Frozen           errors.FloodError with FROZEN_METHOD_INVALID in its text
\*   Flood            any other errors.FloodError
\*   Other            any other Exception
UpstreamExc == {"FloodWait", "Banned", "Deactivated", "ChannelForbidden", "Frozen",
                "Flood", "Other"}
FloodSeconds == 0..MaxFlood

\* The answers of ImportChatInviteRequest that ensure_joined tells apart.
JoinAnswers == {"Updates(chats)", "Updates()", "UserAlreadyParticipant",
                "InviteRequestSent", "ChatAdminRequired", "FloodWait", "RPCError"}

\* Message texts: None, or a string over {" ", "a"} (a sequence of characters).
NoText == <<"None">>
Texts == {NoText, <<>>, <<" ">>, <<" ", "a", " ">>}
\* A message of upstream: id, text (msg.message) and whether its date (a missing
\* date counts as now) is older than now - backfill_days of the running pass; a
\* post row keeps the date as published_at, hence the same flag.
Messages == [id : MsgIds, message : Texts, old : BOOLEAN]

VARIABLES
    clock,        \* datetime.now(timezone.utc)
    accounts,     \* table accounts: id -> row
    channels,     \* table channels: id -> row
    memberships,  \* table account_channel_memberships: account -> channel -> status
    posts,        \* table posts: set of rows; `dup` numbers rows sharing a key
    pp,           \* parse_new_posts_once: the running pass's locals
    hp,           \* _update_accounts_status: the running pass's locals
    mp,           \* ensure_membership_once: the running pass's locals
    opsLeft,      \* operator actions still allowed in this behaviour
    started,      \* number of passes started so far, by kind of pass
    last          \* history: what the last step did

storeVars == <<clock, accounts, channels, memberships, posts, pp, hp, mp, opsLeft,
               started, last>>

\* Number of coroutines of one process that use the client pool in the model.
NCallers == 2

Callers == 1..NCallers

VARIABLES
    entries,      \* TelethonClientPool._entries: account -> _ClientEntry
    callers       \* the coroutines that call pool.connected(account=...)

poolVars == <<entries, callers>>

\* The extraction of an uploaded archive: the members still to extract, the files
\* and directories on disk, and where extract_tdata_from_archive stands.
VARIABLES zip, disk, tdata
diskVars == <<zip, disk, tdata>>

\* The timing of the membership rechecks.  The specification of the timed
\* maintenance pass keeps both; the other specifications draw the outcome of
\* _should_recheck from the upstream answers and leave them at NULL.
VARIABLES
    last_checked_at,  \* column last_checked_at of account_channel_memberships
    rechecked_at      \* history: when the dialogs were last enumerated for a
                      \* membership that was join_requested or pending_approval

checkVars == <<last_checked_at, rechecked_at>>

vars == <<lockVars, storeVars, poolVars, diskVars, checkVars>>

(***************************************************************************)
(* Part I, continued                                                       *)
(***************************************************************************)

NoKey == [value |-> None, ttl |-> 0]

\* (mutant) SET key value EX ttl, without NX
RedisSetEx(l, v, ttl) == [ok |-> TRUE, lock |-> [value |-> v, ttl |-> ttl]]

\* SET key value NX EX ttl: sets only when the key is absent.
RedisSetNxEx(l, v, ttl) ==
    IF l.value = None
    THEN [ok |-> TRUE, lock |-> [value |-> v, ttl |-> ttl]]
    ELSE [ok |-> FALSE, lock |-> l]

\* (mutant) unconditional DEL(key)
ReleaseLockDel(l, tok) == [value |-> None, ttl |-> 0]

\* _RELEASE_LOCK_LUA: if GET(key) == token then DEL(key)
ReleaseLockLua(l, tok) ==
    IF l.value # None /\ l.value = tok THEN NoKey ELSE l

\* _REFRESH_LOCK_LUA: if GET(key) == token then EXPIRE(key, ttl)
RefreshLockLua(l, tok, ttl) ==
    IF l.value # None /\ l.value = tok THEN [value |-> l.value, ttl |-> ttl] ELSE l

\* History kept with the lock key: emptied when the key disappears.
KeyGone(l) == l.value = None

NoAct == <<"none", 0, 0>>

\* The history of the current key's lifetime after a step that leaves lock l2.
HistAfter(l2, h) == IF KeyGone(l2) THEN {} ELSE h

LockInit ==
    /\ lock = NoKey
    /\ seq = 0
    /\ lastTick = None
    /\ drawn = 0
    /\ pc = [p \in Procs |-> IF p = Once THEN "idle" ELSE "acquire"]
    /\ token = [p \in Procs |-> None]
    /\ tick_id = [p \in Procs |-> None]
    /\ refresher = [p \in Procs |-> "none"]
    /\ raised = [p \in Procs |-> FALSE]
    /\ force = FALSE
    /\ exitCode = -1
    /\ winners = {}
    /\ attempts = {}
    /\ act = NoAct

\* acquire_lock: token = secrets.token_hex(16); SET LOCK_KEY token NX EX TTL.
\* A fresh 128-bit random token is modelled as the ordinal of the draw.
acquire_lock(p, next_ok, next_fail) ==
    /\ drawn < MaxRuns
    /\ LET tok == drawn + 1
           r == RedisSetNxEx(lock, tok, LOCK_TTL_SECONDS)
       IN /\ lock' = r.lock
          /\ act' = <<"set", p, tok>>
          /\ IF r.ok
             THEN /\ token' = [token EXCEPT ![p] = tok]
                  /\ drawn' = drawn + 1
                  /\ winners' = winners \cup {p}
                  /\ attempts' = attempts \cup {p}
                  /\ pc' = [pc EXCEPT ![p] = next_ok]
             ELSE /\ token' = [token EXCEPT ![p] = None]
                  /\ drawn' = drawn
                  /\ winners' = winners
                  /\ attempts' = attempts \cup {p}
                  /\ pc' = [pc EXCEPT ![p] = next_fail]

\* main: token = await acquire_lock(r); if not token: log "tick: skipped (lock held)"
MainAcquire(p) ==
    /\ p \in Workers
    /\ pc[p] = "acquire"
    /\ acquire_lock(p, "incr", "sleep")
    /\ UNCHANGED <<seq, lastTick, tick_id, refresher, raised, force, exitCode>>
    /\ UNCHANGED <<storeVars, poolVars, diskVars, checkVars>>

\* main: tick_id = INCR(seq); refresher = create_task(_lock_refresher(r, token))
MainIncr(p) ==
    /\ p \in Workers
    /\ pc[p] = "incr"
    /\ seq' = seq + 1
    /\ tick_id' = [tick_id EXCEPT ![p] = seq + 1]
    /\ refresher' = [refresher EXCEPT ![p] = "sleeping"]
    /\ pc' = [pc EXCEPT ![p] = "tick"]
    /\ act' = NoAct
    /\ UNCHANGED <<lock, lastTick, drawn, token, raised, force, exitCode, winners, attempts>>
    /\ UNCHANGED <<storeVars, poolVars, diskVars, checkVars>>

\* (mutant) a refresh that finds the key gone or taken cancels the running tick
refresher_preempts(p) ==
    /\ refresher[p] = "due"
    /\ lock' = RefreshLockLua(lock, token[p], LOCK_TTL_SECONDS)
    /\ act' = <<"refresh", p, token[p]>>
    /\ refresher' = [refresher EXCEPT ![p] = IF lock.value = token[p] THEN "sleeping"
                                            ELSE "none"]
    /\ pc' = IF lock.value = token[p] THEN pc ELSE [pc EXCEPT ![p] = "release"]
    /\ raised' = IF lock.value = token[p] THEN raised ELSE [raised EXCEPT ![p] = TRUE]
    /\ UNCHANGED <<seq, lastTick, drawn, token, tick_id, force, exitCode,
                   winners, attempts>>
    /\ UNCHANGED <<storeVars, poolVars, diskVars, checkVars>>

\* _lock_refresher: after sleep(interval_s), EVAL _REFRESH_LOCK_LUA.  (An EVAL that
\* raises is logged, "Failed to refresh lock", and changes nothing: such wake-ups
\* are the ones that pass inside Advance's long step.)
lock_refresher(p) ==
    /\ refresher[p] = "due"
    /\ lock' = RefreshLockLua(lock, token[p], LOCK_TTL_SECONDS)
    /\ act' = <<"refresh", p, token[p]>>
    /\ refresher' = [refresher EXCEPT ![p] = "sleeping"]
    /\ UNCHANGED <<seq, lastTick, drawn, pc, token, tick_id, raised, force, exitCode,
                   winners, attempts>>
    /\ UNCHANGED <<storeVars, poolVars, diskVars, checkVars>>

\* (mutant) the refresher is left running
KeepRefresher(p) == refresher

\* What main does when tick() returns or raises: finally: refresher.cancel().
CancelRefresher(p) == [refresher EXCEPT ![p] = "none"]

\* tick() ends: on completion _persist_tick_meta HSETs tick_id into the last-tick
\* hash; on an exception nothing is written.  No await separates the end of tick()
\* from the finally block's refresher.cancel().
TickEnd(p, ok) ==
    /\ pc[p] = "tick"
    /\ lastTick' = IF ok THEN tick_id[p] ELSE lastTick
    /\ raised' = [raised EXCEPT ![p] = ~ok]
    /\ refresher' = IF p \in Workers THEN CancelRefresher(p) ELSE refresher
    /\ pc' = [pc EXCEPT ![p] = "release"]
    /\ act' = NoAct
    /\ UNCHANGED <<lock, seq, drawn, token, tick_id, force, exitCode, winners, attempts>>
    /\ UNCHANGED <<storeVars, poolVars, diskVars, checkVars>>

\* release_lock(token): EVAL _RELEASE_LOCK_LUA.  tick_once calls it only `if token`.
release_lock(p) ==
    IF token[p] # None
    THEN /\ lock' = ReleaseLockLua(lock, token[p])
         /\ act' = <<"release", p, token[p]>>
    ELSE /\ lock' = lock
         /\ act' = NoAct

\* main: finally: ... await release_lock(r, token=token); then, if tick() returned,
\* sleep(tick_interval_seconds); if it raised, the exception leaves the while loop.
MainRelease(p) ==
    /\ p \in Workers
    /\ pc[p] = "release"
    /\ release_lock(p)
    /\ winners' = HistAfter(lock', winners)
    /\ attempts' = HistAfter(lock', attempts)
    /\ pc' = [pc EXCEPT ![p] = IF raised[p] THEN "crashed" ELSE "sleep"]
    /\ UNCHANGED <<seq, lastTick, drawn, token, tick_id, refresher, raised, force, exitCode>>
    /\ UNCHANGED <<storeVars, poolVars, diskVars, checkVars>>

\* main: asyncio.sleep(tick_interval_seconds) is over; next loop iteration.
MainWake(p) ==
    /\ p \in Workers
    /\ pc[p] = "sleep"
    /\ pc' = [pc EXCEPT ![p] = "acquire"]
    /\ token' = [token EXCEPT ![p] = None]
    /\ tick_id' = [tick_id EXCEPT ![p] = None]
    /\ attempts' = attempts \ {p}
    /\ act' = NoAct
    /\ UNCHANGED <<lock, seq, lastTick, drawn, refresher, raised, force, exitCode,
                   winners>>
    /\ UNCHANGED <<storeVars, poolVars, diskVars, checkVars>>

\* (mutant) --force is ignored
bypass_never(f) == FALSE

\* _run_once: `if not force:` guards the acquisition
bypass_lock(f) == f

\* _run_once(force): with --force no lock command is issued; without it
\* acquire_lock, and `return 2` when the lock is held.
RunOnceStart(f) ==
    /\ pc[Once] = "idle"
    /\ force' = f
    /\ tick_id' = [tick_id EXCEPT ![Once] = None]
    /\ raised' = [raised EXCEPT ![Once] = FALSE]
    /\ IF bypass_lock(f)
       THEN /\ seq < MaxRuns
            /\ token' = [token EXCEPT ![Once] = None]
            /\ pc' = [pc EXCEPT ![Once] = "incr"]
            /\ exitCode' = -1
            /\ act' = NoAct
            /\ attempts' = attempts \ {Once}
            /\ UNCHANGED <<lock, drawn, winners>>
       ELSE /\ acquire_lock(Once, "incr", "idle")
            /\ exitCode' = IF token'[Once] = None THEN 2 ELSE -1
    /\ UNCHANGED <<seq, lastTick, refresher>>
    /\ UNCHANGED <<storeVars, poolVars, diskVars, checkVars>>

\* _run_once: tick_id = INCR("tgparser:tick:seq"); no refresher task is created.
RunOnceIncr ==
    /\ pc[Once] = "incr"
    /\ seq' = seq + 1
    /\ tick_id' = [tick_id EXCEPT ![Once] = seq + 1]
    /\ pc' = [pc EXCEPT ![Once] = "tick"]
    /\ act' = NoAct
    /\ UNCHANGED <<lock, lastTick, drawn, token, refresher, raised, force, exitCode,
                   winners, attempts>>
    /\ UNCHANGED <<storeVars, poolVars, diskVars, checkVars>>

\* _run_once: finally: if token: release_lock; return 0 (or the exception).
RunOnceRelease ==
    /\ pc[Once] = "release"
    /\ release_lock(Once)
    /\ winners' = HistAfter(lock', winners)
    /\ attempts' = HistAfter(lock', attempts)
    /\ exitCode' = IF raised[Once] THEN 1 ELSE 0
    /\ pc' = [pc EXCEPT ![Once] = "idle"]
    /\ UNCHANGED <<seq, lastTick, drawn, token, tick_id, refresher, raised, force>>
    /\ UNCHANGED <<storeVars, poolVars, diskVars, checkVars>>

\* Redis's clock: dt seconds pass; a key whose TTL runs out disappears.
RedisExpire(l, dt) ==
    IF l.value = None THEN l
    ELSE IF l.ttl - dt <= 0 THEN NoKey ELSE [l EXCEPT !.ttl = l.ttl - dt]

\* dt seconds pass in which no EXPIRE reaches Redis.  Either dt = interval_s, the
\* time between two wake-ups of the refresher of the key's holder (it wakes on time:
\* no refresher is overdue), or dt = the whole remaining TTL of the key: no refresher
\* is running for it, or every EVAL of it raises and is logged (worker.py:86-87).
\* Shorter waits that end neither in a refresh nor in the expiry change no outcome
\* of any lock command and are not separate steps.
Advance(dt) ==
    /\ \/ /\ dt = interval_s
          /\ \A p \in Procs : refresher[p] # "due"
          /\ \E p \in Procs : refresher[p] = "sleeping" /\ token[p] = lock.value
       \/ /\ dt = lock.ttl
          /\ lock.value # None
    /\ lock' = RedisExpire(lock, dt)
    /\ refresher' = [p \in Procs |-> IF refresher[p] = "sleeping" THEN "due" ELSE refresher[p]]
    /\ winners' = HistAfter(lock', winners)
    /\ attempts' = HistAfter(lock', attempts)
    /\ act' = <<"time", 0, 0>>
    /\ UNCHANGED <<seq, lastTick, drawn, pc, token, tick_id, raised, force, exitCode>>
    /\ UNCHANGED <<storeVars, poolVars, diskVars, checkVars>>

LockNext ==
    \/ \E p \in Workers : MainAcquire(p)
    \/ \E p \in Workers : MainIncr(p)
    \/ \E p \in Workers : lock_refresher(p)
    \/ \E p \in Procs, ok \in BOOLEAN : TickEnd(p, ok)
    \/ \E p \in Workers : MainRelease(p)
    \/ \E p \in Workers : MainWake(p)
    \/ \E f \in BOOLEAN : RunOnceStart(f)
    \/ RunOnceIncr
    \/ RunOnceRelease
    \/ \E dt \in {interval_s, lock.ttl} : Advance(dt)


(***************************************************************************)
(* Part II.  Relational store, selector and the passes                     *)
(***************************************************************************)

\* (mutant) readiness without the cooldown condition
IsReadyNoCooldown(acc, now) ==
    /\ acc.is_active
    /\ acc.status = "active"
    /\ acc.session_string # ""

\* _is_ready_account_clause(now)
IsReadyAccountClause(acc, now) ==
    /\ acc.is_active
    /\ acc.status = "active"
    /\ (acc.cooldown_until = NULL \/ acc.cooldown_until <= now)
    /\ acc.session_string # ""

\* ORDER BY joined_first ASC (private only), last_used_at ASC NULLS FIRST, id ASC
JoinedFirst(type, mem) == IF type = "private" /\ mem = "joined" THEN 0 ELSE
                          IF type = "private" THEN 1 ELSE 0

\* (mutant) ORDER BY id ASC only
OrderedById(accs, mems, type, c, a, b) == a < b

OrderedBefore(accs, mems, type, c, a, b) ==
    LET ja == JoinedFirst(type, mems[a][c])
        jb == JoinedFirst(type, mems[b][c])
        la == accs[a].last_used_at
        lb == accs[b].last_used_at
    IN \/ ja < jb
       \/ ja = jb /\ la < lb
       \/ ja = jb /\ la = lb /\ a < b

\* (mutant) a WHERE clause that only drops the excluded accounts
AllCandidates(accs, mems, type, c, exclude, now) == Accounts \ exclude

\* The rows the selector's WHERE clause keeps.
SelectorCandidates(accs, mems, type, c, exclude, now) ==
    {a \in Accounts :
        /\ IsReadyAccountClause(accs[a], now)
        /\ a \notin exclude
        /\ type = "private" => (mems[a][c] = NoRow \/ mems[a][c] # "forbidden")}

\* pick_account_for_channel(ch, exclude_account_ids): first row or None
pick_account_for_channel(accs, mems, type, c, exclude, now) ==
    LET cands == SelectorCandidates(accs, mems, type, c, exclude, now)
    IN IF cands = {} THEN None
       ELSE CHOOSE a \in cands :
                \A b \in cands \ {a} : OrderedBefore(accs, mems, type, c, a, b)

\* upsert_membership(account_id, channel_id, status)
upsert_membership(mems, a, c, status) == [mems EXCEPT ![a][c] = status]

\* mark_account_used(account_id, now)
mark_account_used(accs, a, now) == [accs EXCEPT ![a].last_used_at = now]

\* _mark_account_cooldown(account_id, seconds, now) (parser_engine and
\* membership_maintenance have the same function)
mark_account_cooldown(accs, a, seconds, now) ==
    [accs EXCEPT ![a].status = "cooldown",
                 ![a].cooldown_until = now + Max2(0, seconds)]

\* _quarantine_account(account_id, status, now)
quarantine_account(accs, a, status) ==
    [accs EXCEPT ![a].status = status,
                 ![a].is_active = FALSE,
                 ![a].cooldown_until = NULL]

\* (mutant) a forbidden channel is still processed
channel_is_active(ch) == ch.is_active

\* _channel_is_actionable(ch)
channel_is_actionable(ch) == ch.is_active /\ ch.access_status # "forbidden"


(***************************************************************************)
(* Part II: posts, text, join service                                      *)
(***************************************************************************)

IsSpace(ch) == ch = " "

RECURSIVE LStrip(_)
LStrip(s) == IF s # <<>> /\ IsSpace(Head(s)) THEN LStrip(Tail(s)) ELSE s

RECURSIVE RStrip(_)
RStrip(s) == IF s # <<>> /\ IsSpace(s[Len(s)]) THEN RStrip(SubSeq(s, 1, Len(s) - 1)) ELSE s

\* (mutant) text or "", without strip()
text_or_empty(text) == IF text = NoText THEN <<>> ELSE text

\* _normalize_text(text): (text or "").strip()
normalize_text(text) == LStrip(RStrip(IF text = NoText THEN <<>> ELSE text))

\* Rows of posts with the key (channel_id, message_id)
PostRows(ps, c, m) == {r \in ps : r.channel_id = c /\ r.message_id = m}

\* (mutant) the posts of the channel are not looked at
always_post(ps, c) == TRUE

\* select(Post.id).where(Post.channel_id == db_ch.id).limit(1).first()
any_post(ps, c) == \E r \in ps : r.channel_id = c

\* (mutant) plain INSERT of one row, no conflict target
InsertRowPlain(ps, r) ==
    [posts |-> ps \cup {[channel_id |-> r.channel_id, message_id |-> r.message_id,
                         text |-> r.text, old |-> r.old,
                         dup |-> Cardinality(PostRows(ps, r.channel_id, r.message_id)) + 1]},
     returned |-> 1]

\* One row of INSERT ... ON CONFLICT (channel_id, message_id) DO NOTHING RETURNING id:
\* a row whose key is already there (stored before, or put there by an earlier row
\* of the same statement) is skipped and returns no id.
InsertRow(ps, r) ==
    IF PostRows(ps, r.channel_id, r.message_id) # {}
    THEN [posts |-> ps, returned |-> 0]
    ELSE [posts |-> ps \cup {[channel_id |-> r.channel_id, message_id |-> r.message_id,
                              text |-> r.text, old |-> r.old, dup |-> 1]},
          returned |-> 1]

\* insert(Post).values(rows).on_conflict_do_nothing(...).returning(Post.id);
\* `returned` is len(res.fetchall()).
RECURSIVE InsertPosts(_, _)
InsertPosts(ps, rows) ==
    IF rows = <<>> THEN [posts |-> ps, returned |-> 0]
    ELSE LET one == InsertRow(ps, Head(rows))
             rest == InsertPosts(one.posts, Tail(rows))
         IN [posts |-> rest.posts, returned |-> one.returned + rest.returned]

\* inserted = len(res.fetchall()) if rows else 0
InsertedCount(res, rows) == IF rows = <<>> THEN 0 ELSE res.returned

\* EnsureJoinedResult(ok, entity, access_status, note); `entity` is whether the
\* result carries an entity, `called` whether upstream was called at all.
EnsureJoinedResult(ok, entity, access_status, note, called) ==
    [ok |-> ok, entity |-> entity, access_status |-> access_status, note |-> note,
     called |-> called]

\* The except clauses at the end of ensure_joined, for the answer `ans` of upstream.
join_failed(ans, seconds) ==
    CASE ans = "ChatAdminRequired" ->
             EnsureJoinedResult(FALSE, FALSE, "forbidden", "forbidden", TRUE)
      [] ans = "FloodWait" ->
             EnsureJoinedResult(FALSE, FALSE, "error",
                                "FloodWait " \o ToString(seconds) \o "s", TRUE)
      [] OTHER ->
             EnsureJoinedResult(FALSE, FALSE, "error", "RPCError: " \o ans, TRUE)

\* ensure_joined(client, ch, force): the result for the answer `ans` of upstream
\* (to get_entity / JoinChannelRequest for a public channel, to
\* ImportChatInviteRequest for a private one).  The identifiers in the store are
\* the normalized ones the bot UI saves: a username, or a bare invite hash.
ensure_joined(type, access_status, forced, ans, seconds) ==
    IF ~forced /\ type = "public" /\ access_status \in {"joined", "active"}
    THEN EnsureJoinedResult(TRUE, FALSE, access_status, "", FALSE)
    ELSE IF type = "public"
    THEN IF ans \in {"Updates(chats)", "Updates()", "UserAlreadyParticipant"}
         THEN EnsureJoinedResult(TRUE, TRUE, "joined", "joined public channel", TRUE)
         ELSE join_failed(ans, seconds)
    ELSE CASE ans = "Updates(chats)" ->
                  EnsureJoinedResult(TRUE, TRUE, "joined", "imported private invite", TRUE)
           [] ans = "Updates()" ->
                  EnsureJoinedResult(TRUE, FALSE, "joined", "imported private invite", TRUE)
           [] ans = "UserAlreadyParticipant" ->
                  EnsureJoinedResult(TRUE, FALSE, "joined", "already participant", TRUE)
           [] ans = "InviteRequestSent" ->
                  EnsureJoinedResult(FALSE, FALSE, "join_requested",
                                     "join request sent (pending approval)", TRUE)
           [] OTHER -> join_failed(ans, seconds)

\* get_entity_from_dialogs(client, ch) for a private channel: the entity is found
\* only by a stored numeric peer_id; `in_dialogs` is whether the account's dialogs
\* hold the channel.
entity_from_dialogs(ch, in_dialogs) == in_dialogs /\ ch.peer_id # 0

\* (mutant) no guardrail
no_pending(mems, c) == FALSE

\* any_pending: some membership of the channel is join_requested / pending_approval
any_pending(mems, c) == \E a \in Accounts : mems[a][c] \in PendingStatuses

\* The except clauses of the attempt loop, by exception kind.
\* `notified`: notify_admin(msg) and notify_team(msg) are awaited for the event.
on_exception(accs, mems, a, c, kind, seconds, now) ==
    CASE kind = "FloodWait" ->
             [accounts |-> mark_account_cooldown(accs, a, seconds, now), memberships |-> mems,
              notified |-> FALSE]
      [] kind \in {"Banned", "Frozen"} ->
             [accounts |-> quarantine_account(accs, a, "banned"), memberships |-> mems,
              notified |-> TRUE]
      [] kind = "Deactivated" ->
             [accounts |-> quarantine_account(accs, a, "forbidden"), memberships |-> mems,
              notified |-> TRUE]
      [] kind = "ChannelForbidden" ->
             [accounts |-> accs, memberships |-> upsert_membership(mems, a, c, "forbidden"),
              notified |-> FALSE]
      [] OTHER ->
             [accounts |-> accs, memberships |-> mems, notified |-> FALSE]

(***************************************************************************)
(* Part II: parse_new_posts_once                                           *)
(***************************************************************************)

\* Locals of a pass that is not running.
PPIdle ==
    [pc |-> "idle", now |-> 0, todo |-> <<>>, exclude |-> {}, attempts |-> 0,
     last_exc |-> "none", acc |-> None, cursor |-> 0, max_seen_id |-> 0, rows |-> <<>>,
     backfill |-> FALSE, limit |-> 0, fetched |-> 0, fix_status |-> FALSE,
     total |-> 0, checked |-> 0, inserted_total |-> 0]

\* (a or b) of two optional strings: None and "" are falsy
str_or(a, b) == IF a = NoText \/ a = <<>> THEN b ELSE a

\* s.lstrip("@")
RECURSIVE lstrip_at(_)
lstrip_at(s) == IF s # <<>> /\ Head(s) = "@" THEN lstrip_at(Tail(s)) ELSE s

\* _build_message_url(ch, entity, message_id): username is entity.username (None
\* when the entity has none), ent_id is entity.id (NULL when it is no int); the
\* URL is the sequence of its parts, "" is <<>>.
build_message_url(identifier, username, ent_id, message_id) ==
    LET name == LStrip(RStrip(lstrip_at(str_or(str_or(username, identifier), <<>>))))
    IN IF name # <<>>
       THEN <<"https://t.me/">> \o name \o <<"/", ToString(message_id)>>
       ELSE IF ent_id # NULL /\ ent_id > 0
       THEN <<"https://t.me/c/", ToString(ent_id), "/", ToString(message_id)>>
       ELSE <<>>

\* No URL built
NoUrl == [type |-> "none", identifier |-> <<>>, username |-> NoText, ent_id |-> NULL,
          message_id |-> 0, original_url |-> <<>>]

\* A history record for a step named op.
\* No AccountHealth returned
NoHealth == [status |-> "none", cooldown_until |-> NULL, last_error |-> ""]

\* TickSummary(): the account counters of the dataclass, all 0 by default
TickSummary ==
    [accounts_checked |-> 0, accounts_active_total |-> 0, accounts_auth_required |-> 0,
     accounts_cooldown |-> 0, accounts_banned |-> 0, accounts_error |-> 0]

\* statuses = select(Account.status).where(is_active); sum(1 for s in statuses if s == st)
count_status(accs, st) ==
    Cardinality({a \in Accounts : accs[a].is_active /\ accs[a].status = st})

\* The TickSummary that _update_accounts_status builds after its commit
health_summary(accs, checked) ==
    [accounts_checked |-> checked,
     accounts_active_total |-> Cardinality({a \in Accounts : accs[a].is_active}),
     accounts_auth_required |-> count_status(accs, "auth_required"),
     accounts_cooldown |-> count_status(accs, "cooldown"),
     accounts_banned |-> count_status(accs, "banned"),
     accounts_error |-> count_status(accs, "error")]

\* ParseSummary(channels_total=..., channels_checked=..., channels_skipped_no_account=0,
\* posts_inserted=...)
ParseSummary(total, checked, inserted) ==
    [channels_total |-> total, channels_checked |-> checked,
     channels_skipped_no_account |-> 0, posts_inserted |-> inserted]

LastOf(op) ==
    [op |-> op, acc |-> None, ch |-> None, at_join |-> FALSE, join_called |-> FALSE,
     excluded |-> FALSE, rows |-> 0, inserted |-> 0, broke |-> FALSE,
     dialogs |-> 0, join |-> "none", exc |-> "none", seconds |-> 0, notified |-> FALSE,
     summary |-> TickSummary, put |-> [a \in Accounts |-> "none"],
     ans |-> "none", health |-> NoHealth, until |-> [a \in Accounts |-> NULL],
     errs |-> [a \in Accounts |-> ""],
     returned |-> FALSE, parse |-> ParseSummary(0, 0, 0),
     forced |-> FALSE, jr |-> EnsureJoinedResult(FALSE, FALSE, "error", "", FALSE),
     upstream |-> FALSE, found |-> FALSE, url |-> NoUrl]

\* select(Channel).order_by(Channel.id.asc()), filtered by _channel_is_actionable
RECURSIVE actionable_channels(_, _)
actionable_channels(chs, from) ==
    IF from \notin DOMAIN chs THEN <<>>
    ELSE (IF channel_is_actionable(chs[from]) THEN <<from>> ELSE <<>>)
         \o actionable_channels(chs, from + 1)

\* for ch in actionable_channels: the locals at the top of the next iteration, or
\* the end of the pass.
NextChannel(p) ==
    IF Len(p.todo) > 1
    THEN [PPIdle EXCEPT !.pc = "attempt", !.now = p.now, !.todo = Tail(p.todo),
                        !.total = p.total, !.checked = p.checked + 1,
                        !.inserted_total = p.inserted_total]
    ELSE PPIdle

\* return ParseSummary(...): the pass's counters as they are when it returns
parse_return(p) == ParseSummary(p.total, p.checked, p.inserted_total)

\* The history of a step that moves on from the current channel: the summary is
\* returned when that channel was the last one.
AfterChannel(l, p) ==
    IF Len(p.todo) > 1 THEN l
    ELSE [l EXCEPT !.returned = TRUE, !.parse = parse_return(p)]

\* if not parsed: ... if isinstance(last_exc, forbidden_exc_types):
\*     db_ch.access_status = forbidden
not_parsed(chs, c, last_exc) ==
    IF last_exc = "ChannelForbidden"
    THEN [chs EXCEPT ![c].access_status = "forbidden"]
    ELSE chs

\* What upstream answers during one attempt, up to the point where the entity is
\* resolved: pre (connect, is_user_authorized, first dialogs lookup), dialogs and
\* direct (whether the lookups find the channel), join (ImportChatInvite's answer),
\* post (the dialogs lookup after a join that returned no entity), direct_exc (the
\* exception that client.get_entity raises in the direct resolve, if any).
NoUpstream ==
    [pre |-> "ok", seconds |-> 0, dialogs |-> FALSE, direct |-> FALSE,
     join |-> "RPCError", post |-> "none", direct_exc |-> "none"]

UpstreamAnswers ==
    {[NoUpstream EXCEPT !.pre = k] :
        k \in {"unauthorized", "Config"} \cup (UpstreamExc \ {"FloodWait"})}
    \cup {[NoUpstream EXCEPT !.pre = "FloodWait", !.seconds = s] : s \in FloodSeconds}
    \cup {[NoUpstream EXCEPT !.dialogs = TRUE], [NoUpstream EXCEPT !.direct = TRUE]}
    \cup {[NoUpstream EXCEPT !.direct_exc = k] : k \in UpstreamExc \ {"FloodWait"}}
    \cup {[NoUpstream EXCEPT !.direct_exc = "FloodWait", !.seconds = s] : s \in FloodSeconds}
    \cup {[NoUpstream EXCEPT !.join = j] : j \in JoinAnswers}
    \cup {[NoUpstream EXCEPT !.join = j, !.post = k] :
            j \in {"Updates()", "UserAlreadyParticipant"},
            k \in {"found"} \cup (UpstreamExc \ {"FloodWait"})}
    \cup {[NoUpstream EXCEPT !.join = j, !.post = "FloodWait", !.seconds = s] :
            j \in {"Updates()", "UserAlreadyParticipant"}, s \in FloodSeconds}

\* The result of an attempt that ends with `continue` (outcome "continue"), with the
\* entity resolved (outcome "parse") or with the pass's return (outcome "return").
\* History of the attempt: dialogs (calls of get_entity_from_dialogs), swallowed
\* (the exception of the direct resolve that `except Exception: entity = None`
\* dropped), notified (the notifier was called).
Outcome(o, accs, chs, mems, exc, at_join, join_called) ==
    [outcome |-> o, accounts |-> accs, channels |-> chs, memberships |-> mems,
     exc |-> exc, at_join |-> at_join, join_called |-> join_called,
     dialogs |-> 0, swallowed |-> "none", notified |-> FALSE]

Raised(accs, chs, mems, a, c, kind, seconds, now, at_join, join_called) ==
    LET h == on_exception(accs, mems, a, c, kind, seconds, now)
    IN [Outcome("continue", h.accounts, chs, h.memberships, kind, at_join, join_called)
            EXCEPT !.notified = h.notified]

\* (mutant) the dialogs are looked up for every channel type
dialogs_always(type) == TRUE

\* if db_ch.type != ChannelType.public: entity = await get_entity_from_dialogs(...)
dialogs_first(type) == type # "public"

\* One iteration of `while attempts < 8` for the picked account a, up to
\* "3) Parse posts".
resolve_entity(accs, chs, mems, c, a, now, u) ==
    LET ch == chs[c]
        private == ch.type = "private"
        first == dialogs_first(ch.type)
        dialogs1 == first /\ entity_from_dialogs(ch, u.dialogs)
        mems1 == IF dialogs1 THEN upsert_membership(mems, a, c, "joined") ELSE mems
        direct_called == ~dialogs1 /\ (private => ch.peer_id # 0)
        direct1 == u.direct /\ direct_called /\ u.direct_exc = "none"
        jr == ensure_joined(ch.type, ch.access_status, FALSE, u.join, u.seconds)
        mems2 == upsert_membership(mems1, a, c, jr.access_status)
        chs2 == [chs EXCEPT ![c].access_status = jr.access_status,
                            ![c].peer_id = IF jr.entity THEN c ELSE @]
        res ==
          IF u.pre = "Config" THEN Outcome("return", accs, chs, mems, "none", FALSE, FALSE)
       ELSE IF u.pre = "unauthorized"
            THEN Outcome("continue", accs, chs, mems, "none", FALSE, FALSE)
       ELSE IF u.pre # "ok"
            THEN Raised(accs, chs, mems, a, c, u.pre, u.seconds, now, FALSE, FALSE)
       ELSE IF dialogs1 \/ direct1
            THEN Outcome("parse", accs, chs, mems1, "none", FALSE, FALSE)
       ELSE IF ~private
            THEN Outcome("continue", accs, chs, mems1, "none", FALSE, FALSE)
       ELSE IF mems1[a][c] \in PendingStatuses
            THEN Outcome("continue", accs, chs, mems1, "none", TRUE, FALSE)
       ELSE IF any_pending(mems1, c)
            THEN Outcome("continue", accs, chs, mems1, "none", TRUE, FALSE)
       ELSE IF ~jr.ok
            THEN Outcome("continue", accs, chs2, mems2, "none", TRUE, TRUE)
       ELSE IF jr.entity \/ (u.post = "found" /\ entity_from_dialogs(chs2[c], TRUE))
            THEN Outcome("parse", accs, chs2, mems2, "none", TRUE, TRUE)
       ELSE IF u.post \in UpstreamExc
            THEN Raised(accs, chs2, mems2, a, c, u.post, u.seconds, now, TRUE, TRUE)
       ELSE Outcome("continue", accs, chs2, mems2, "none", TRUE, TRUE)
        \* A failure before the resolve is connect's, is_user_authorized's or, when
        \* the dialogs are looked up first, that lookup's.
        lookups == (IF first /\ u.pre \notin {"Config", "unauthorized"} THEN 1 ELSE 0)
                   + (IF res.join_called /\ jr.ok /\ ~jr.entity THEN 1 ELSE 0)
    IN [res EXCEPT !.dialogs = lookups,
                   !.swallowed = IF u.pre = "ok" /\ direct_called THEN u.direct_exc
                                 ELSE "none"]

\* parse_new_posts_once, up to the first attempt: now, the actionable channels.
ParseStart ==
    /\ pp.pc = "idle" /\ hp.pc = "idle" /\ mp.pc = "idle"
    /\ started.parse < MaxPasses
    /\ started' = [started EXCEPT !.parse = @ + 1]
    /\ LET todo == actionable_channels(channels, 1)
       IN /\ pp' = IF todo = <<>> THEN PPIdle
                   ELSE [PPIdle EXCEPT !.pc = "attempt", !.now = clock, !.todo = todo,
                                       !.total = Len(todo), !.checked = 1]
          /\ last' = IF todo = <<>>
                     THEN [LastOf("start") EXCEPT !.returned = TRUE,
                                                  !.parse = ParseSummary(0, 0, 0)]
                     ELSE LastOf("start")
    /\ UNCHANGED <<clock, accounts, channels, memberships, posts, hp, mp, opsLeft, lockVars, poolVars, diskVars, checkVars>>

\* "3) Parse posts", before the first message: the cursor and the resync rule.
begin_parse(p, chs, ps, c, a) ==
    LET stored == chs[c].cursor_message_id
        cursor == IF stored > 0 /\ ~any_post(ps, c) THEN 0 ELSE stored
        backfill == cursor <= 0 /\ chs[c].backfill_days > 0
    IN [p EXCEPT !.pc = "iter", !.acc = a, !.cursor = cursor, !.max_seen_id = cursor,
                 !.rows = <<>>, !.backfill = backfill,
                 !.limit = IF backfill THEN BackfillLimit
                           ELSE IF cursor <= 0 THEN FirstParseLimit ELSE NULL,
                 !.fetched = 0,
                 !.fix_status = chs[c].access_status \notin {"active", "joined"}]

\* `continue`: the next iteration of the while loop, or its end (attempts = 8) and
\* the `if not parsed` block.
Continue(p, chs, c) ==
    IF p.attempts < MaxAttempts
    THEN [pp |-> p, channels |-> chs, ended |-> FALSE]
    ELSE [pp |-> NextChannel(p), channels |-> not_parsed(chs, c, p.last_exc),
          ended |-> TRUE]

\* (mutant) `continue` without the account excluded
exclude_kept(exclude, a) == exclude

\* exclude.add(acc.id)
exclude_add(exclude, a) == exclude \cup {a}

\* (mutant) a TelethonConfigError ends the channel, and the pass goes on
config_skips_channel(p) == NextChannel(p)

\* except TelethonConfigError: return ParseSummary(...)
config_error(p) == PPIdle

\* One iteration of the while loop: the selector's pick, then the attempt up to the
\* first message of iter_messages.
Attempt(u) ==
    /\ pp.pc = "attempt"
    /\ LET c == Head(pp.todo)
           a == pick_account_for_channel(accounts, memberships, channels[c].type, c,
                                         pp.exclude, clock)
           r == resolve_entity(accounts, channels, memberships, c, a, pp.now, u)
           p1 == [pp EXCEPT !.attempts = @ + 1,
                            !.last_exc = IF r.exc # "none" THEN r.exc ELSE @,
                            !.exclude = IF r.outcome = "continue"
                                        THEN exclude_add(@, a) ELSE @]
           k == Continue(p1, r.channels, c)
           l == [LastOf("attempt") EXCEPT !.ch = c, !.acc = a,
                    !.at_join = r.at_join, !.join_called = r.join_called,
                    !.excluded = r.outcome = "continue",
                    !.dialogs = r.dialogs,
                    !.join = IF r.join_called THEN u.join ELSE "none",
                    !.exc = IF r.outcome = "return" THEN "Config"
                            ELSE IF r.exc # "none" THEN r.exc ELSE r.swallowed,
                    !.seconds = IF \/ "FloodWait" \in {r.exc, r.swallowed}
                                   \/ (r.join_called /\ u.join = "FloodWait")
                                THEN u.seconds ELSE 0,
                    !.notified = r.notified]
       IN IF a = None
          THEN /\ u = NoUpstream
               /\ pp' = NextChannel(pp)
               /\ channels' = not_parsed(channels, c, pp.last_exc)
               /\ last' = AfterChannel([LastOf("attempt") EXCEPT !.ch = c], pp)
               /\ UNCHANGED <<accounts, memberships>>
          ELSE /\ accounts' = r.accounts
               /\ memberships' = r.memberships
               /\ CASE r.outcome = "return" ->
                          /\ pp' = config_error(p1)
                          /\ channels' = r.channels
                          /\ last' = [l EXCEPT !.returned = TRUE,
                                               !.parse = parse_return(p1)]
                    [] r.outcome = "parse" ->
                          /\ pp' = begin_parse(p1, r.channels, posts, c, a)
                          /\ channels' = r.channels
                          /\ last' = l
                    [] OTHER ->
                          /\ pp' = k.pp
                          /\ channels' = k.channels
                          /\ last' = IF k.ended THEN AfterChannel(l, p1) ELSE l
    /\ UNCHANGED <<clock, posts, hp, mp, opsLeft, started, lockVars, poolVars, diskVars, checkVars>>

\* (mutant) the commit stores the posts and leaves the cursor where it was read
cursor_as_read(max_seen_id, cursor) == cursor

\* db_ch.cursor_message_id = max_seen_id if max_seen_id > cursor else cursor, where
\* cursor is the local that the resync rule may have set to 0.
CursorToPersist(max_seen_id, cursor) ==
    IF max_seen_id > cursor THEN max_seen_id ELSE cursor

\* The iteration is over (broke: by the break of the backfill mode): insert, cursor,
\* commit; membership joined; account used; parsed = True; break.
CommitParse(broke) ==
    LET c == Head(pp.todo)
        res == InsertPosts(posts, pp.rows)
    IN /\ posts' = res.posts
       /\ channels' = [channels EXCEPT
              ![c].cursor_message_id = CursorToPersist(pp.max_seen_id, pp.cursor),
              ![c].access_status = IF pp.fix_status THEN "joined" ELSE @]
       /\ memberships' = upsert_membership(memberships, pp.acc, c, "joined")
       /\ accounts' = mark_account_used(accounts, pp.acc, pp.now)
       /\ LET inserted == InsertedCount(res, pp.rows)
              p1 == [pp EXCEPT !.inserted_total = @ + inserted]
          IN /\ last' = AfterChannel([LastOf("commit") EXCEPT !.ch = c, !.acc = pp.acc,
                                         !.rows = Len(pp.rows),
                                         !.inserted = inserted,
                                         !.broke = broke], p1)
             /\ pp' = NextChannel(p1)

\* (mutant) the iteration never stops at an old message
never_break(backfill, old) == FALSE

\* if backfill_since is not None and published_at < backfill_since: break
backfill_break(backfill, old) == backfill /\ old

\* async for msg in msg_iter: one message.  In backfill mode a message older than
\* backfill_since breaks out of the iteration, and the commit follows at once.
IterNext(m) ==
    /\ pp.pc = "iter"
    /\ pp.fetched < MaxFetch
    /\ pp.limit # NULL => pp.fetched < pp.limit
    /\ LET text == normalize_text(m.message)
           skip == text = <<>> \/ m.id <= pp.cursor
       IN IF backfill_break(pp.backfill, m.old)
          THEN CommitParse(TRUE)
          ELSE /\ pp' = IF skip THEN [pp EXCEPT !.fetched = @ + 1]
                        ELSE [pp EXCEPT !.fetched = @ + 1,
                                        !.max_seen_id = Max2(@, m.id),
                                        !.rows = Append(@, [channel_id |-> Head(pp.todo),
                                                            message_id |-> m.id,
                                                            text |-> text,
                                                            old |-> m.old])]
               /\ last' = LastOf("iter")
               /\ UNCHANGED <<accounts, channels, memberships, posts>>
    /\ UNCHANGED <<clock, hp, mp, opsLeft, started, lockVars, poolVars, diskVars, checkVars>>

\* Upstream has no more messages (or the limit is reached).
IterEnd ==
    /\ pp.pc = "iter"
    /\ CommitParse(FALSE)
    /\ UNCHANGED <<clock, hp, mp, opsLeft, started, lockVars, poolVars, diskVars, checkVars>>

\* iter_messages raises: the open transaction is rolled back, the except clause of
\* the exception runs, and the loop continues with the account excluded.
IterRaise(kind, seconds) ==
    /\ pp.pc = "iter"
    /\ LET c == Head(pp.todo)
           h == on_exception(accounts, memberships, pp.acc, c, kind, seconds, pp.now)
           p1 == [pp EXCEPT !.pc = "attempt", !.last_exc = kind,
                            !.exclude = exclude_add(@, pp.acc), !.acc = None,
                            !.cursor = 0, !.max_seen_id = 0, !.rows = <<>>,
                            !.backfill = FALSE, !.limit = 0, !.fetched = 0,
                            !.fix_status = FALSE]
           k == Continue(p1, channels, c)
       IN /\ accounts' = h.accounts
          /\ memberships' = h.memberships
          /\ pp' = k.pp
          /\ channels' = k.channels
          /\ last' = LET l == [LastOf("raise") EXCEPT
                                  !.ch = c, !.acc = pp.acc, !.excluded = TRUE,
                                  !.exc = kind,
                                  !.seconds = IF kind = "FloodWait" THEN seconds ELSE 0,
                                  !.notified = h.notified]
                     IN IF k.ended THEN AfterChannel(l, p1) ELSE l
    /\ UNCHANGED <<clock, posts, hp, mp, opsLeft, started, lockVars, poolVars, diskVars, checkVars>>

(***************************************************************************)
(* Part II: _update_accounts_status (the account health pass)              *)
(***************************************************************************)

\* Answers of upstream to TelethonAccountService.check
HealthAnswers == {"ok", "unauthorized", "FloodWait", "Frozen", "Flood", "Other", "Config"}

\* The pass's session holds, for each account it has checked, the attributes whose
\* assigned value differs from the loaded one; only these are written by the commit.
NoWrite ==
    [st_dirty |-> FALSE, status |-> "active", cd_dirty |-> FALSE,
     cooldown_until |-> NULL, deactivate |-> FALSE, health |-> "none",
     until |-> NULL, last_error |-> ""]

\* (mutant) cooldown_until is left as loaded
assign_status_only(acc, health) ==
    [st_dirty |-> health.status # acc.status,
     status |-> IF health.status # acc.status THEN health.status ELSE "active",
     cd_dirty |-> FALSE,
     cooldown_until |-> NULL,
     deactivate |-> health.status = "banned" /\ acc.is_active,
     health |-> health.status,
     until |-> acc.cooldown_until,
     last_error |-> health.last_error]

\* acc = db.get(Account, account_id); acc.status = health.status;
\* acc.last_error = health.last_error; acc.cooldown_until = health.cooldown_until;
\* if health.status == banned: acc.is_active = False
assign_health(acc, health) ==
    [st_dirty |-> health.status # acc.status,
     status |-> IF health.status # acc.status THEN health.status ELSE "active",
     cd_dirty |-> health.cooldown_until # acc.cooldown_until,
     cooldown_until |-> IF health.cooldown_until # acc.cooldown_until
                        THEN health.cooldown_until ELSE NULL,
     deactivate |-> health.status = "banned" /\ acc.is_active,
     health |-> health.status,
     until |-> health.cooldown_until,
     last_error |-> health.last_error]

HPIdle ==
    [pc |-> "idle", todo |-> <<>>, checked |-> 0, writes |-> [a \in Accounts |-> NoWrite]]

\* select(Account.id).where(is_active).order_by(id)
RECURSIVE active_account_ids(_, _)
active_account_ids(accs, from) ==
    IF from > NAccounts THEN <<>>
    ELSE (IF accs[from].is_active THEN <<from>> ELSE <<>>)
         \o active_account_ids(accs, from + 1)

\* (mutant) the probe is made without looking at the stored session first
check_probe_only(acc, ans, seconds, now) ==
    CASE ans = "unauthorized" ->
             [status |-> "auth_required", cooldown_until |-> NULL,
              last_error |-> "Session is not authorized"]
      [] ans = "ok" ->
             [status |-> "active", cooldown_until |-> NULL, last_error |-> "OK: me"]
      [] ans = "FloodWait" ->
             [status |-> "cooldown", cooldown_until |-> now + seconds,
              last_error |-> "FloodWait: s"]
      [] ans = "Frozen" ->
             [status |-> "banned", cooldown_until |-> NULL, last_error |-> "Frozen: msg"]
      [] ans = "Flood" ->
             [status |-> "error", cooldown_until |-> NULL, last_error |-> "FloodError: msg"]
      [] OTHER ->
             [status |-> "error", cooldown_until |-> NULL, last_error |-> "Exception: msg"]

\* TelethonAccountService.check(account_id): AccountHealth(status, cooldown_until,
\* last_error).  last_error is kept by its format: identity, seconds and message
\* text are left out.
check(acc, ans, seconds, now) ==
    IF acc.session_string = ""
    THEN [status |-> "auth_required", cooldown_until |-> NULL,
          last_error |-> "Missing session_string"]
    ELSE CASE ans = "unauthorized" ->
                  [status |-> "auth_required", cooldown_until |-> NULL,
                   last_error |-> "Session is not authorized"]
           [] ans = "ok" ->
                  [status |-> "active", cooldown_until |-> NULL, last_error |-> "OK: me"]
           [] ans = "FloodWait" ->
                  [status |-> "cooldown", cooldown_until |-> now + seconds,
                   last_error |-> "FloodWait: s"]
           [] ans = "Frozen" ->
                  [status |-> "banned", cooldown_until |-> NULL,
                   last_error |-> "Frozen: msg"]
           [] ans = "Flood" ->
                  [status |-> "error", cooldown_until |-> NULL,
                   last_error |-> "FloodError: msg"]
           [] OTHER ->
                  [status |-> "error", cooldown_until |-> NULL,
                   last_error |-> "Exception: msg"]

\* db.commit() of the pass's session
commit_health(accs, writes) ==
    [a \in Accounts |->
        [accs[a] EXCEPT
            !.status = IF writes[a].st_dirty THEN writes[a].status ELSE @,
            !.cooldown_until = IF writes[a].cd_dirty THEN writes[a].cooldown_until ELSE @,
            !.is_active = IF writes[a].deactivate THEN FALSE ELSE @]]

\* The pass, up to the first check.  No active account: return TickSummary().
HealthStart ==
    /\ pp.pc = "idle" /\ hp.pc = "idle" /\ mp.pc = "idle"
    /\ started.health < MaxPasses
    /\ started' = [started EXCEPT !.health = @ + 1]
    /\ LET ids == active_account_ids(accounts, 1)
       IN hp' = IF ids = <<>> THEN HPIdle ELSE [HPIdle EXCEPT !.pc = "check", !.todo = ids]
    /\ last' = LastOf("health_start")
    /\ UNCHANGED <<clock, accounts, channels, memberships, posts, pp, mp, opsLeft, lockVars, poolVars, diskVars, checkVars>>

\* for account_id in account_ids: checked += 1; health = await service.check(...);
\* the row's new values stay in the session until the commit that follows the
\* loop.  A TelethonConfigError breaks out of the loop.  After the commit the pass
\* returns the TickSummary built from the rows that are still is_active; tick()
\* writes its account counters unchanged into the hash tgparser:tick:last.
HealthCheck(ans, seconds) ==
    /\ hp.pc = "check"
    /\ LET a == Head(hp.todo)
           cfg == ans = "Config" /\ accounts[a].session_string # ""
           health == check(accounts[a], ans, seconds, clock)
           writes == IF cfg THEN hp.writes
                     ELSE [hp.writes EXCEPT ![a] = assign_health(accounts[a], health)]
       IN IF cfg \/ Len(hp.todo) = 1
          THEN /\ accounts' = commit_health(accounts, writes)
               /\ hp' = HPIdle
               /\ last' = [LastOf("health_commit") EXCEPT
                               !.acc = a,
                               !.summary = health_summary(accounts', hp.checked + 1),
                               !.put = [b \in Accounts |-> writes[b].health],
                               !.ans = ans,
                               !.seconds = IF ans = "FloodWait" THEN seconds ELSE 0,
                               !.health = IF cfg THEN NoHealth ELSE health,
                               !.until = [b \in Accounts |-> writes[b].until],
                               !.errs = [b \in Accounts |-> writes[b].last_error]]
          ELSE /\ accounts' = accounts
               /\ hp' = [hp EXCEPT !.todo = Tail(@), !.checked = @ + 1,
                                   !.writes = writes]
               /\ last' = [LastOf("health_check") EXCEPT
                               !.acc = a, !.ans = ans,
                               !.seconds = IF ans = "FloodWait" THEN seconds ELSE 0,
                               !.health = health]
    /\ UNCHANGED <<clock, channels, memberships, posts, pp, mp, opsLeft, started, lockVars, poolVars, diskVars, checkVars>>

(***************************************************************************)
(* Part II: ensure_membership_once (membership maintenance)                *)
(***************************************************************************)

MPIdle ==
    [pc |-> "idle", now |-> 0, todo |-> <<>>, acc |-> None,
     snap |-> [c \in Channels |-> [type |-> "public", access_status |-> "active",
                                   peer_id |-> 0]]]

\* select(Channel).where(is_active).order_by(id)
RECURSIVE active_channel_ids(_, _)
active_channel_ids(chs, from) ==
    IF from \notin DOMAIN chs THEN <<>>
    ELSE (IF chs[from].is_active THEN <<from>> ELSE <<>>)
         \o active_channel_ids(chs, from + 1)

\* _account_ready(acc, now)
account_ready(acc, now) ==
    /\ acc.is_active
    /\ acc.status = "active"
    /\ ~(acc.cooldown_until # NULL /\ acc.cooldown_until > now)
    /\ acc.session_string # ""

\* next((a for a in accounts if _account_ready(a, now=now)), None) over the account
\* rows read at the start of the pass
first_ready(accs, now) ==
    LET ready == {a \in Accounts : account_ready(accs[a], now)}
    IN IF ready = {} THEN None ELSE CHOOSE a \in ready : \A b \in ready : a <= b

\* get_entity_from_dialogs(client, ch) for either type: a public channel is found
\* by its username, a private one by its stored peer_id.
entity_from_dialogs_any(ch, in_dialogs) ==
    IF ch.type = "public" THEN in_dialogs ELSE entity_from_dialogs(ch, in_dialogs)

\* The membership status the maintenance pass stores for an EnsureJoinedResult.
maintenance_status(access_status) ==
    IF access_status \in {"joined", "join_requested", "pending_approval", "forbidden"}
    THEN access_status
    ELSE "error"

\* What upstream answers during one channel of the pass; `due` is the outcome of
\* _should_recheck for the membership's last_checked_at.
NoMaint == [due |-> TRUE, pre |-> "ok", seconds |-> 0, dialogs |-> FALSE, join |-> "RPCError"]

MaintAnswers ==
    {[NoMaint EXCEPT !.due = FALSE], [NoMaint EXCEPT !.dialogs = TRUE]}
    \cup {[NoMaint EXCEPT !.pre = k] : k \in {"unauthorized", "Other"}}
    \cup {[NoMaint EXCEPT !.pre = "FloodWait", !.seconds = s] : s \in FloodSeconds}
    \cup {[NoMaint EXCEPT !.join = j] : j \in JoinAnswers \ {"FloodWait"}}
    \cup {[NoMaint EXCEPT !.join = "FloodWait", !.seconds = s] : s \in FloodSeconds}

\* The pass, up to the first channel; at most `limit` passes start in a behaviour.
BeginMaint(limit) ==
    /\ pp.pc = "idle" /\ hp.pc = "idle" /\ mp.pc = "idle"
    /\ started.maintenance < limit
    /\ started' = [started EXCEPT !.maintenance = @ + 1]
    /\ LET chs == active_channel_ids(channels, 1)
           accs == active_account_ids(accounts, 1)
       IN mp' = IF chs = <<>> \/ accs = <<>> THEN MPIdle
                ELSE [pc |-> "channel", now |-> clock, todo |-> chs,
                      acc |-> first_ready(accounts, clock),
                      snap |-> [c \in DOMAIN channels |->
                                   [type |-> channels[c].type,
                                    access_status |-> channels[c].access_status,
                                    peer_id |-> channels[c].peer_id]]]
    /\ last' = LastOf("maintenance_start")
    /\ UNCHANGED <<clock, accounts, channels, memberships, posts, pp, hp, opsLeft, lockVars, poolVars, diskVars, checkVars>>

MaintStart == BeginMaint(MaxPasses)

\* One iteration of `for ch in channels` for the account a of the pass: the rows
\* after it, whether ensure_joined was called (join_called), whether the account
\* was taken from the pool and used upstream (upstream), and whether
\* upsert_membership was called (upserted).
maintain(accs, mems, ch, c, a, now, u) ==
    LET st == IF mems[a][c] = NoRow THEN "unknown" ELSE mems[a][c]
        same == [accounts |-> accs, memberships |-> mems, join_called |-> FALSE,
                 upstream |-> FALSE, upserted |-> FALSE]
        up == [same EXCEPT !.upstream = TRUE]
        cool == [up EXCEPT !.accounts = mark_account_cooldown(accs, a, u.seconds, now)]
        found == entity_from_dialogs_any(ch, u.dialogs)
        jr == ensure_joined(ch.type, ch.access_status, FALSE, u.join, u.seconds)
        mems2 == upsert_membership(mems, a, c, maintenance_status(jr.access_status))
    IN IF st \in PendingStatuses
       THEN IF ~u.due THEN same
            ELSE IF u.pre = "FloodWait" THEN cool
            ELSE IF u.pre = "Other" THEN up
            ELSE IF found
                 THEN [up EXCEPT !.memberships = upsert_membership(mems, a, c, "joined"),
                                 !.upserted = TRUE]
                 ELSE up
       ELSE IF st = "joined"
       THEN IF ~u.due THEN same
            ELSE IF u.pre \in {"FloodWait", "Other"} THEN up
            ELSE IF found THEN up
            ELSE [up EXCEPT !.memberships = upsert_membership(mems, a, c, "error"),
                            !.upserted = TRUE]
       ELSE IF st = "forbidden" THEN same
       ELSE IF st = "error" /\ ~u.due THEN same
       ELSE IF any_pending(mems, c) THEN same
       ELSE IF u.pre = "FloodWait" THEN cool
       ELSE IF u.pre = "Other" THEN up
       ELSE IF u.pre = "unauthorized"
            THEN [up EXCEPT !.accounts =
                     [accs EXCEPT ![a].status = "auth_required",
                                  ![a].cooldown_until = NULL]]
       ELSE [accounts |-> IF jr.called /\ u.join = "FloodWait"
                          THEN mark_account_cooldown(accs, a, u.seconds, now)
                          ELSE accs,
             memberships |-> mems2, join_called |-> TRUE, upstream |-> TRUE,
             upserted |-> TRUE]

MaintChannel(u) ==
    /\ mp.pc = "channel"
    /\ LET c == Head(mp.todo)
           r == maintain(accounts, memberships, mp.snap[c], c, mp.acc, mp.now, u)
       IN /\ IF mp.acc = None
             THEN /\ u = NoMaint
                  /\ UNCHANGED <<accounts, memberships>>
                  /\ last' = [LastOf("maintenance") EXCEPT !.ch = c]
             ELSE /\ accounts' = r.accounts
                  /\ memberships' = r.memberships
                  /\ last' = [LastOf("maintenance") EXCEPT !.ch = c, !.acc = mp.acc,
                                 !.join_called = r.join_called,
                                 !.upstream = r.upstream]
          /\ mp' = IF Len(mp.todo) > 1 THEN [mp EXCEPT !.todo = Tail(@)] ELSE MPIdle
    /\ UNCHANGED <<clock, channels, posts, pp, hp, opsLeft, started, lockVars, poolVars, diskVars, checkVars>>

\* JOIN_REQUEST_DIALOGS_RECHECK_EVERY, ERROR_RETRY_EVERY, JOINED_REFRESH_EVERY, in
\* seconds
JOIN_REQUEST_DIALOGS_RECHECK_EVERY == 6 * 3600
ERROR_RETRY_EVERY == 30 * 60
JOINED_REFRESH_EVERY == 24 * 3600

\* _should_recheck(last_checked_at, every, now)
should_recheck(checked, every, now) ==
    IF checked = NULL THEN TRUE ELSE checked + every <= now

\* The `every` that the pass hands to _should_recheck for a membership status; the
\* statuses unknown and forbidden are not gated (0: always due).
recheck_every(st) ==
    CASE st \in PendingStatuses -> JOIN_REQUEST_DIALOGS_RECHECK_EVERY
      [] st = "joined" -> JOINED_REFRESH_EVERY
      [] st = "error" -> ERROR_RETRY_EVERY
      [] OTHER -> 0

\* Number of maintenance passes in one behaviour of the timed pass.
MaxMaintPasses == 2

\* The instants at which the passes run in the timed pass: successive ticks, and
\* the ticks at which the recheck windows of a row written at 0 are over.
MaintInstants ==
    {0, tick_interval_seconds, JOIN_REQUEST_DIALOGS_RECHECK_EVERY,
     JOIN_REQUEST_DIALOGS_RECHECK_EVERY + tick_interval_seconds, JOINED_REFRESH_EVERY}

CheckInit ==
    /\ last_checked_at = [a \in Accounts |-> [c \in 1..NTickChannels |-> NULL]]
    /\ rechecked_at = [a \in Accounts |-> [c \in 1..NTickChannels |-> NULL]]

\* The pass of a tick: the worker has slept since the pass before.
MaintStartTimed ==
    /\ last.op \in {"init", "time"}
    /\ BeginMaint(MaxMaintPasses)

\* One iteration of `for ch in channels` with the outcome of _should_recheck
\* computed from the row's last_checked_at, which upsert_membership sets to the
\* `now` of the pass.
MaintTimed(u) ==
    /\ mp.pc = "channel"
    /\ LET c == Head(mp.todo)
           a == mp.acc
           st == IF memberships[a][c] = NoRow THEN "unknown" ELSE memberships[a][c]
           r == maintain(accounts, memberships, mp.snap[c], c, a, mp.now, u)
       IN /\ IF a = None
             THEN /\ u = NoMaint
                  /\ UNCHANGED <<accounts, memberships, checkVars>>
                  /\ last' = [LastOf("maintenance") EXCEPT !.ch = c]
             ELSE /\ u.due = should_recheck(last_checked_at[a][c], recheck_every(st),
                                            mp.now)
                  /\ accounts' = r.accounts
                  /\ memberships' = r.memberships
                  /\ last_checked_at' = IF r.upserted
                                        THEN [last_checked_at EXCEPT ![a][c] = mp.now]
                                        ELSE last_checked_at
                  /\ rechecked_at' = IF st \in PendingStatuses /\ r.upstream
                                     THEN [rechecked_at EXCEPT ![a][c] = mp.now]
                                     ELSE rechecked_at
                  /\ last' = [LastOf("maintenance") EXCEPT !.ch = c, !.acc = a,
                                 !.join_called = r.join_called,
                                 !.upstream = r.upstream,
                                 !.found = /\ r.upstream /\ u.pre = "ok"
                                           /\ entity_from_dialogs_any(mp.snap[c],
                                                                      u.dialogs)]
          /\ mp' = IF Len(mp.todo) > 1 THEN [mp EXCEPT !.todo = Tail(@)] ELSE MPIdle
    /\ UNCHANGED <<clock, channels, posts, pp, hp, opsLeft, started, lockVars, poolVars, diskVars>>

\* The worker sleeps until a later tick.
Elapse(t) ==
    /\ mp.pc = "idle"
    /\ started.maintenance < MaxMaintPasses
    /\ t > clock
    /\ clock' = t
    /\ last' = LastOf("time")
    /\ UNCHANGED <<accounts, channels, memberships, posts, pp, hp, mp, opsLeft, started, lockVars, poolVars, diskVars, checkVars>>

(***************************************************************************)
(* Part II: operator actions (bot UI)                                      *)
(***************************************************************************)

OperatorOps == {"ch_toggle", "ch_add", "acc_toggle", "acc_remove", "reauth"}

\* What upstream answers to _attempt_join_on_add: pre is "fail" when the account is
\* not authorized or anything raises (the handler returns a note, nothing is stored).
NoJoinOnAdd == [pre |-> "ok", seconds |-> 0, dialogs |-> FALSE, join |-> "RPCError"]

JoinOnAddAnswers ==
    {[NoJoinOnAdd EXCEPT !.pre = "fail"], [NoJoinOnAdd EXCEPT !.dialogs = TRUE]}
    \cup {[NoJoinOnAdd EXCEPT !.join = j] : j \in JoinAnswers}

\* _attempt_join_on_add(channel_id)
attempt_join_on_add(accs, chs, mems, c, now, u) ==
    LET ch == chs[c]
        a == pick_account_for_channel(accs, mems, ch.type, c, {}, now)
        same == [channels |-> chs, memberships |-> mems, acc |-> a, join_called |-> FALSE]
        jr == ensure_joined(ch.type, ch.access_status, FALSE, u.join, u.seconds)
    IN IF a = None \/ u.pre = "fail" THEN same
       ELSE IF entity_from_dialogs_any(ch, u.dialogs)
            THEN [same EXCEPT
                    !.memberships = upsert_membership(mems, a, c, "joined"),
                    !.channels = [chs EXCEPT ![c].access_status =
                                     IF @ \notin {"active", "joined"} THEN "joined" ELSE @]]
       ELSE [channels |-> [chs EXCEPT ![c].access_status = jr.access_status],
             memberships |-> IF jr.access_status = "active" THEN mems
                             ELSE upsert_membership(mems, a, c, jr.access_status),
             acc |-> a, join_called |-> TRUE]

\* ch_toggle / ch_disable / ch_enable
ChToggle(c) ==
    /\ opsLeft.channel > 0
    /\ opsLeft' = [opsLeft EXCEPT !.channel = @ - 1]
    /\ channels' = [channels EXCEPT ![c].is_active = ~@]
    /\ last' = [LastOf("ch_toggle") EXCEPT !.ch = c]
    /\ UNCHANGED <<clock, accounts, memberships, posts, pp, hp, mp, started, lockVars, poolVars, diskVars, checkVars>>

\* ch_add_backfill for a channel that exists and is not active: re-enable it, then
\* _attempt_join_on_add.
ChAdd(c, days, u) ==
    /\ opsLeft.channel > 0
    /\ ~channels[c].is_active
    /\ opsLeft' = [opsLeft EXCEPT !.channel = @ - 1]
    /\ LET chs == [channels EXCEPT ![c].is_active = TRUE, ![c].backfill_days = days]
           r == attempt_join_on_add(accounts, chs, memberships, c, clock, u)
       IN /\ channels' = r.channels
          /\ memberships' = r.memberships
          /\ last' = [LastOf("ch_add") EXCEPT !.ch = c, !.acc = r.acc,
                         !.join_called = r.join_called]
    /\ UNCHANGED <<clock, accounts, posts, pp, hp, mp, started, lockVars, poolVars, diskVars, checkVars>>

\* acc_toggle
AccToggle(a) ==
    /\ opsLeft.account > 0
    /\ opsLeft' = [opsLeft EXCEPT !.account = @ - 1]
    /\ accounts' = [accounts EXCEPT ![a].is_active = ~@]
    /\ last' = [LastOf("acc_toggle") EXCEPT !.acc = a]
    /\ UNCHANGED <<clock, channels, memberships, posts, pp, hp, mp, started, lockVars, poolVars, diskVars, checkVars>>

\* acc_remove: soft removal
AccRemove(a) ==
    /\ opsLeft.account > 0
    /\ opsLeft' = [opsLeft EXCEPT !.account = @ - 1]
    /\ accounts' = [accounts EXCEPT ![a].is_active = FALSE, ![a].status = "forbidden",
                                    ![a].session_string = "", ![a].cooldown_until = NULL]
    /\ memberships' = [memberships EXCEPT ![a] =
                          [c \in Channels |-> IF @[c] = NoRow THEN NoRow ELSE "forbidden"]]
    /\ last' = [LastOf("acc_remove") EXCEPT !.acc = a]
    /\ UNCHANGED <<clock, channels, posts, pp, hp, mp, started, lockVars, poolVars, diskVars, checkVars>>

\* _create_or_update_account, re-auth path
ReAuth(a) ==
    /\ opsLeft.account > 0
    /\ opsLeft' = [opsLeft EXCEPT !.account = @ - 1]
    /\ accounts' = [accounts EXCEPT ![a].is_active = TRUE, ![a].status = "active",
                                    ![a].session_string = "sess",
                                    ![a].cooldown_until = NULL]
    /\ last' = [LastOf("reauth") EXCEPT !.acc = a]
    /\ UNCHANGED <<clock, channels, memberships, posts, pp, hp, mp, started, lockVars, poolVars, diskVars, checkVars>>

(***************************************************************************)
(* Part III: TelethonClientPool.connected (the per-account client pool)    *)
(***************************************************************************)

\* An account with no _ClientEntry yet; `lock` is the entry's asyncio.Lock: its
\* holder (None: unlocked) and the queue of its waiters.
NoEntry ==
    [made |-> FALSE, holder |-> None, waiters |-> <<>>, refcount |-> 0,
     connected |-> FALSE]

\* A coroutine outside connected(): `out` is how its last use ended for the caller
\* ("ok": the with block completed, "exc": an exception left it, "cancelled":
\* CancelledError left it), `logged`: log.exception("disconnect failed") was called.
IdleCaller == [pc |-> "idle", acc |-> None, out |-> "none", logged |-> FALSE]

PoolOutcomes == {"ok", "exc", "cancelled"}

PoolInit ==
    /\ entries = [a \in Accounts |-> NoEntry]
    /\ callers = [t \in Callers |-> IdleCaller]

\* (mutant) the entry's lock is taken without regard to its holder
LockBarge(ent, t) == [ent EXCEPT !.holder = t]

\* asyncio.Lock.acquire(): taken at once when unlocked with no waiter, else the
\* coroutine queues.
LockAcquire(ent, t) ==
    IF ent.holder = None /\ ent.waiters = <<>>
    THEN [ent EXCEPT !.holder = t]
    ELSE [ent EXCEPT !.waiters = Append(@, t)]

\* asyncio.Lock.release(): the first waiter is woken and owns the lock next.
LockRelease(ent) ==
    IF ent.waiters = <<>>
    THEN [ent EXCEPT !.holder = None]
    ELSE [ent EXCEPT !.holder = Head(ent.waiters), !.waiters = Tail(@)]

\* inside `async with ent.lock`: ent.refcount += 1; if not ent.connected: the
\* coroutine awaits client.connect(), else it yields the client to the body.
EnterLocked(ent) == [ent EXCEPT !.refcount = @ + 1]

pc_after_enter(ent) == IF ent.connected THEN "body" ELSE "connecting"

\* finally: ent.refcount = max(0, ent.refcount - 1)
Unref(ent) == [ent EXCEPT !.refcount = Max2(0, @ - 1)]

\* connected(account): _get_entry creates the entry if there is none (no await
\* inside its critical section), then the coroutine takes the entry's lock or
\* queues for it.
PoolCall(t, a) ==
    /\ callers[t].pc = "idle"
    /\ LET made == [entries[a] EXCEPT !.made = TRUE]
           got == LockAcquire(made, t)
       IN IF got.holder = t
          THEN /\ entries' = [entries EXCEPT ![a] = EnterLocked(got)]
               /\ callers' = [callers EXCEPT ![t] =
                                 [IdleCaller EXCEPT !.pc = pc_after_enter(got), !.acc = a]]
          ELSE /\ entries' = [entries EXCEPT ![a] = got]
               /\ callers' = [callers EXCEPT ![t] =
                                 [IdleCaller EXCEPT !.pc = "waiting", !.acc = a]]
    /\ UNCHANGED <<lockVars, storeVars, diskVars, checkVars>>

\* A waiter that was handed the lock resumes inside `async with ent.lock`.
PoolWake(t) ==
    /\ callers[t].pc = "waiting"
    /\ LET a == callers[t].acc
       IN /\ entries[a].holder = t
          /\ entries' = [entries EXCEPT ![a] = EnterLocked(@)]
          /\ callers' = [callers EXCEPT ![t].pc = pc_after_enter(entries[a])]
    /\ UNCHANGED <<lockVars, storeVars, diskVars, checkVars>>

\* The coroutine is cancelled while it waits for the lock: it leaves the queue, or
\* passes the lock on if it had just been handed it; the body never starts.
PoolCancelWait(t) ==
    /\ callers[t].pc = "waiting"
    /\ LET a == callers[t].acc
           ent == entries[a]
       IN entries' = [entries EXCEPT ![a] =
                         IF ent.holder = t THEN LockRelease(ent)
                         ELSE [ent EXCEPT !.waiters = SelectSeq(@, LAMBDA x : x # t)]]
    /\ callers' = [callers EXCEPT ![t] = [IdleCaller EXCEPT !.out = "cancelled"]]
    /\ UNCHANGED <<lockVars, storeVars, diskVars, checkVars>>

\* await ent.client.connect() returns (ent.connected = True; yield), raises, or is
\* cancelled; in the last two cases the finally block runs with connected false:
\* no disconnect, the lock is released and the exception leaves connected().
PoolConnect(t, r) ==
    /\ callers[t].pc = "connecting"
    /\ LET a == callers[t].acc
       IN IF r = "ok"
          THEN /\ entries' = [entries EXCEPT ![a].connected = TRUE]
               /\ callers' = [callers EXCEPT ![t].pc = "body"]
          ELSE LET e == Unref(entries[a])
               IN IF e.refcount = 0 /\ e.connected
                  THEN /\ entries' = [entries EXCEPT ![a] = e]
                       /\ callers' = [callers EXCEPT ![t].pc = "disconnecting",
                                                     ![t].out = r]
                  ELSE /\ entries' = [entries EXCEPT ![a] = LockRelease(e)]
                       /\ callers' = [callers EXCEPT ![t] =
                                         [IdleCaller EXCEPT !.out = r]]
    /\ UNCHANGED <<lockVars, storeVars, diskVars, checkVars>>

\* The body of the with block ends: it completes, raises, or is cancelled.  finally:
\* the refcount drops; at 0 with a connected client the coroutine awaits
\* client.disconnect().
PoolBodyEnd(t, r) ==
    /\ callers[t].pc = "body"
    /\ LET a == callers[t].acc
           e == Unref(entries[a])
       IN IF e.refcount = 0 /\ e.connected
          THEN /\ entries' = [entries EXCEPT ![a] = e]
               /\ callers' = [callers EXCEPT ![t].pc = "disconnecting", ![t].out = r]
          ELSE /\ entries' = [entries EXCEPT ![a] = LockRelease(e)]
               /\ callers' = [callers EXCEPT ![t] = [IdleCaller EXCEPT !.out = r]]
    /\ UNCHANGED <<lockVars, storeVars, diskVars, checkVars>>

\* await ent.client.disconnect() returns, raises an Exception (logged, swallowed),
\* or is cancelled (CancelledError is not an Exception: it propagates); finally:
\* ent.connected = False.  Then the lock is released.
PoolDisconnect(t, d) ==
    /\ callers[t].pc = "disconnecting"
    /\ LET a == callers[t].acc
       IN entries' = [entries EXCEPT ![a] = LockRelease([@ EXCEPT !.connected = FALSE])]
    /\ callers' = [callers EXCEPT ![t] =
                      [IdleCaller EXCEPT
                          !.out = IF d = "cancelled" THEN "cancelled" ELSE callers[t].out,
                          !.logged = (d = "exc")]]
    /\ UNCHANGED <<lockVars, storeVars, diskVars, checkVars>>

PoolNext ==
    \/ \E t \in Callers, a \in Accounts : PoolCall(t, a)
    \/ \E t \in Callers : PoolWake(t)
    \/ \E t \in Callers : PoolCancelWait(t)
    \/ \E t \in Callers, r \in PoolOutcomes : PoolConnect(t, r)
    \/ \E t \in Callers, r \in PoolOutcomes : PoolBodyEnd(t, r)
    \/ \E t \in Callers, d \in PoolOutcomes : PoolDisconnect(t, d)

(***************************************************************************)
(* Part IV: extract_tdata_from_archive (utils/tdata.py)                    *)
(***************************************************************************)

\* A path is the sequence of its components, the pieces between the slashes:
\* "../tdata/key_datas" is <<"..", "tdata", "key_datas">>, "/tdata" is
\* <<"", "tdata">>, a directory entry "tdata/" is <<"tdata", "">>.  A member name
\* has at most MaxDepth components, an archive at most two members, the second one
\* of at most MaxDepth - 1 components.
MaxDepth == 3

\* The components of member names: empty, ".", "..", a name that starts with a
\* backslash ("\.."), and plain names.
Components == {"", ".", "..", "\\..", "tdata", "Desktop", "key_datas"}

MemberNames(depth) == UNION {[1..n -> Components] : n \in 1..depth}

Archives ==
    {<<m>> : m \in MemberNames(MaxDepth)}
    \cup {<<m1, m2>> : m1 \in MemberNames(MaxDepth), m2 \in MemberNames(MaxDepth - 1)}

\* extract_root, an absolute path
ExtractRoot == <<"out">>

IsPrefix(p, q) == Len(p) <= Len(q) /\ SubSeq(q, 1, Len(p)) = p

\* The string starts with a slash.
IsAbsName(name) == Len(name) >= 2 /\ name[1] = ""

\* posixpath.normpath, the loop over path.split('/'): "" and "." are dropped, ".."
\* removes the component before it, and is kept at the start of a relative path.
RECURSIVE NormComps(_, _, _)
NormComps(comps, abs, acc) ==
    IF comps = <<>> THEN acc
    ELSE LET c == Head(comps)
             rest == Tail(comps)
         IN IF c \in {"", "."} THEN NormComps(rest, abs, acc)
            ELSE IF c # ".." \/ (~abs /\ acc = <<>>)
                             \/ (acc # <<>> /\ acc[Len(acc)] = "..")
            THEN NormComps(rest, abs, Append(acc, c))
            ELSE IF acc # <<>> THEN NormComps(rest, abs, SubSeq(acc, 1, Len(acc) - 1))
            ELSE NormComps(rest, abs, acc)

\* .lstrip("/\\") of one component: its leading backslashes go.
lstrip_component(c) == IF c = "\\.." THEN ".." ELSE c

\* .lstrip("/\\") of a path: leading slashes and backslashes go, through every
\* component that they make up entirely.
RECURSIVE lstrip(_)
lstrip(comps) ==
    IF comps = <<>> THEN <<>>
    ELSE LET h == lstrip_component(Head(comps))
         IN IF h = "" THEN lstrip(Tail(comps)) ELSE <<h>> \o Tail(comps)

\* normalized = os.path.normpath(member_name).lstrip("/\\"): normpath gives "." for
\* a relative path with nothing left, and keeps the leading slash(es) of an
\* absolute one, which lstrip removes.
normalized(name) ==
    LET abs == IsAbsName(name)
        comps == NormComps(name, abs, <<>>)
    IN IF abs THEN lstrip(comps)
       ELSE IF comps = <<>> THEN <<".">> ELSE lstrip(comps)

\* normalized.startswith(".." + os.sep) or normalized == ".."
is_traversal(norm) == norm # <<>> /\ norm[1] = ".."

\* out_path = os.path.abspath(os.path.join(dst_dir_abs, normalized))
out_path(norm) == NormComps(ExtractRoot \o norm, TRUE, <<>>)

\* out_path.startswith(dst_dir_abs + os.sep) or out_path == dst_dir_abs
inside_root(out) == IsPrefix(ExtractRoot, out)


\* The two checks that raise TdataArchiveError("unsafe archive paths detected")
unsafe_path(norm) == is_traversal(norm) \/ ~inside_root(out_path(norm))

\* member.is_dir(): the name ends with a slash
is_dir(name) == Len(name) >= 2 /\ name[Len(name)] = ""

Ancestors(path) == {SubSeq(path, 1, n) : n \in 0..(Len(path) - 1)}

\* os.makedirs(path, exist_ok=True): the directory and its ancestors, unless one of
\* them is a file (FileExistsError, NotADirectoryError).
makedirs(d, path) ==
    IF (Ancestors(path) \cup {path}) \cap d.files # {}
    THEN [ok |-> FALSE, disk |-> d]
    ELSE [ok |-> TRUE, disk |-> [d EXCEPT !.dirs = @ \cup Ancestors(path) \cup {path}]]

\* One iteration of `for member in z.infolist()`.
safe_extract_member(d, name) ==
    LET norm == normalized(name)
        out == out_path(norm)
        parent == makedirs(d, SubSeq(out, 1, Len(out) - 1))
        made == makedirs(parent.disk, out)
        same == [error |-> "none", disk |-> d]
    IN IF name = <<"">> THEN same
       ELSE IF unsafe_path(norm)
       THEN [same EXCEPT !.error = "TdataArchiveError"]
       ELSE IF out = <<>> \/ ~parent.ok THEN [same EXCEPT !.error = "OSError"]
       ELSE IF is_dir(name)
       THEN (IF made.ok THEN [same EXCEPT !.disk = made.disk]
             ELSE [error |-> "OSError", disk |-> parent.disk])
       ELSE IF out \in parent.disk.dirs
       THEN [error |-> "OSError", disk |-> parent.disk]
       ELSE [error |-> "none",
             disk |-> [parent.disk EXCEPT !.files = @ \cup {out}]]

\* The directories that os.walk(extract_root) can reach first among those that hold
\* a directory "tdata": the order of the entries within a directory is the file
\* system's, a directory always comes before what is below it.
walk_first(d) ==
    LET holds(r) == Append(r, "tdata") \in d.dirs
        under(r) == IsPrefix(ExtractRoot, r)
    IN {r \in d.dirs : under(r) /\ holds(r)
                       /\ \A q \in Ancestors(r) : under(q) => ~holds(q)}

\* os.listdir(tdata_dir)
listdir(d, dir) ==
    {p \in d.dirs \cup d.files : Len(p) = Len(dir) + 1 /\ IsPrefix(dir, p)}

NoDisk == [dirs |-> {}, files |-> {}]

TdIdle == [pc |-> "idle", error |-> "none", path |-> <<>>, member |-> <<>>]

DiskInit ==
    /\ zip = <<>>
    /\ disk = NoDisk
    /\ tdata = TdIdle

\* An uploaded archive waits at archive_path.
UploadInit ==
    /\ zip \in Archives \cup {<<>>}
    /\ disk = NoDisk
    /\ tdata = TdIdle

\* extract_tdata_from_archive, up to the loop of _safe_extract_zip: the file at
\* archive_path exists and is a zip file (kind "zip"), or TdataArchiveError is
\* raised.
ExtractStart(kind) ==
    /\ tdata.pc = "idle"
    /\ IF kind = "zip"
       THEN /\ disk' = [NoDisk EXCEPT !.dirs = Ancestors(ExtractRoot) \cup {ExtractRoot}]
            /\ tdata' = [TdIdle EXCEPT !.pc = "extract"]
       ELSE /\ tdata' = [TdIdle EXCEPT !.pc = "raised", !.error = "TdataArchiveError"]
            /\ disk' = disk
    /\ UNCHANGED <<zip, lockVars, storeVars, poolVars, checkVars>>

\* _safe_extract_zip: one member.
ExtractMember ==
    /\ tdata.pc = "extract"
    /\ zip # <<>>
    /\ LET r == safe_extract_member(disk, Head(zip))
       IN /\ disk' = r.disk
          /\ zip' = Tail(zip)
          /\ tdata' = [tdata EXCEPT !.member = Head(zip), !.error = r.error,
                                    !.pc = IF r.error = "none" THEN "extract"
                                           ELSE "raised"]
    /\ UNCHANGED <<lockVars, storeVars, poolVars, checkVars>>

\* extract_tdata_from_archive after the extraction: find the tdata folder, which
\* must not be empty.
FindTdata(dir) ==
    /\ tdata.pc = "extract"
    /\ zip = <<>>
    /\ LET candidate == Append(ExtractRoot, "tdata")
           found == IF candidate \in disk.dirs THEN {candidate}
                    ELSE {Append(r, "tdata") : r \in walk_first(disk)}
       IN IF found = {}
          THEN /\ dir = <<>>
               /\ tdata' = [tdata EXCEPT !.pc = "raised", !.error = "TdataArchiveError"]
          ELSE /\ dir \in found
               /\ tdata' = IF listdir(disk, dir) = {}
                           THEN [tdata EXCEPT !.pc = "raised",
                                              !.error = "TdataArchiveError"]
                           ELSE [tdata EXCEPT !.pc = "returned", !.path = dir]
    /\ UNCHANGED <<zip, disk, lockVars, storeVars, poolVars, checkVars>>

TdataNext ==
    \/ \E kind \in {"zip", "missing", "notzip"} : ExtractStart(kind)
    \/ ExtractMember
    \/ \E dir \in {<<>>} \cup {Append(r, "tdata") : r \in disk.dirs} : FindTdata(dir)

(***************************************************************************)
(* Part II: initial store, clock, specification                            *)
(***************************************************************************)

\* An account as _create_or_update_account stores it.
NewAccount ==
    [is_active |-> TRUE, status |-> "active", cooldown_until |-> NULL,
     session_string |-> "sess", last_used_at |-> NULL]

\* A channel as ch_add stores it; cursor_message_id 0 stands for NULL as well
\* (the code reads `cursor_message_id or 0`), peer_id 0 for NULL.
NewChannel(type, backfill_days, cursor) ==
    [type |-> type, is_active |-> TRUE, access_status |-> "active",
     cursor_message_id |-> cursor, backfill_days |-> backfill_days, peer_id |-> 0]

\* The store after onboarding of the accounts and adding of the channels, with no
\* post stored.  A cursor above 0 with no post is the state that the resync rule of
\* parser_engine.py:349-357 is written for.
NoPassRunning ==
    /\ clock = 0
    /\ pp = PPIdle
    /\ hp = HPIdle
    /\ mp = MPIdle
    /\ opsLeft = [channel |-> MaxChannelOps, account |-> MaxAccountOps]
    /\ started = [parse |-> 0, health |-> 0, maintenance |-> 0]
    /\ last = LastOf("init")

StoreInit ==
    /\ NoPassRunning
    /\ accounts = [a \in Accounts |-> NewAccount]
    /\ channels \in [Channels -> {NewChannel(t, b, k) :
                                    t \in ChannelType, b \in 0..1, k \in 0..MaxMsgId}]
    /\ memberships = [a \in Accounts |-> [c \in Channels |-> NoRow]]
    /\ posts = {}

\* The store that stays as it is under SpecLock.
StorePristine ==
    /\ StoreInit
    /\ channels = [c \in Channels |-> NewChannel("public", 0, 0)]

\* One second passes.
Tick ==
    /\ clock < MaxTime
    /\ clock' = clock + 1
    /\ last' = LastOf("time")
    /\ UNCHANGED <<accounts, channels, memberships, posts, pp, hp, mp, opsLeft, started, lockVars, poolVars, diskVars, checkVars>>

ParseNext ==
    \/ ParseStart
    \/ \E u \in UpstreamAnswers : Attempt(u)
    \/ \E m \in Messages : IterNext(m)
    \/ IterEnd
    \/ \E k \in UpstreamExc, s \in FloodSeconds : IterRaise(k, s)
    \/ Tick

\* A post as an earlier parse stored it.
StoredPost(c, m) ==
    [channel_id |-> c, message_id |-> m, text |-> <<"a">>, old |-> FALSE, dup |-> 1]

\* The parse pass over channels with messages upstream.  A channel starts unparsed,
\* or parsed up to a message that is stored, or with the cursor of a parse whose
\* posts are gone.
ParseInit ==
    /\ NoPassRunning
    /\ accounts = [a \in Accounts |-> NewAccount]
    /\ channels \in [Channels -> {NewChannel(t, b, k) :
                                    t \in ChannelType, b \in 0..1, k \in 0..MaxMsgId}]
    /\ memberships = [a \in Accounts |-> [c \in Channels |-> NoRow]]
    /\ \E stored \in SUBSET Channels :
          /\ \A c \in stored : channels[c].cursor_message_id > 0
          /\ posts = {StoredPost(c, channels[c].cursor_message_id) : c \in stored}

Init == ParseInit /\ LockInit /\ PoolInit /\ DiskInit /\ CheckInit

Spec == Init /\ [][ParseNext]_vars

\* The store with no message upstream and no backfill.
QuietInit ==
    /\ StoreInit
    /\ \A c \in Channels : channels[c].backfill_days = 0 /\ channels[c].cursor_message_id = 0

\* The fleet: the accounts under the three passes, the operator's account actions and
\* time; the channels have no message upstream.
FleetNext ==
    \/ ParseStart
    \/ \E u \in UpstreamAnswers : Attempt(u)
    \/ IterEnd
    \/ \E k \in UpstreamExc, s \in FloodSeconds : IterRaise(k, s)
    \/ HealthStart
    \/ \E k \in HealthAnswers, s \in FloodSeconds : HealthCheck(k, s)
    \/ MaintStart
    \/ \E u \in MaintAnswers : MaintChannel(u)
    \/ \E a \in Accounts : AccToggle(a)
    \/ \E a \in Accounts : AccRemove(a)
    \/ \E a \in Accounts : ReAuth(a)
    \/ Tick

FleetInit ==
    /\ QuietInit
    /\ \A c \in Channels : channels[c].type = "public"

InitFleet == FleetInit /\ LockInit /\ PoolInit /\ DiskInit /\ CheckInit

SpecFleet == InitFleet /\ [][FleetNext]_vars

\* Joining: the memberships under the parse pass, the maintenance pass and the
\* operator's channel actions; the channels have no message upstream.
JoinNext ==
    \/ ParseStart
    \/ \E u \in UpstreamAnswers : Attempt(u)
    \/ IterEnd
    \/ \E k \in UpstreamExc, s \in FloodSeconds : IterRaise(k, s)
    \/ MaintStart
    \/ \E u \in MaintAnswers : MaintChannel(u)
    \/ \E c \in Channels : ChToggle(c)
    \/ \E c \in Channels, u \in JoinOnAddAnswers : ChAdd(c, 0, u)

InitJoin == QuietInit /\ LockInit /\ PoolInit /\ DiskInit /\ CheckInit

SpecJoin == InitJoin /\ [][JoinNext]_vars

\* The selector as a function of the store: the rows are drawn from bounded sets,
\* then the selector is called and time passes.
SelectorRows ==
    [is_active : BOOLEAN, status : AccountStatus, cooldown_until : {NULL, 1},
     session_string : {"", "sess"}, last_used_at : {NULL}]

SelectorInit ==
    /\ NoPassRunning
    /\ accounts \in [Accounts -> SelectorRows]
    /\ channels \in [Channels -> {NewChannel(t, 0, 0) : t \in ChannelType}]
    /\ memberships \in [Accounts -> [Channels -> {NoRow, "joined", "forbidden"}]]
    /\ posts = {}

\* pick_account_for_channel(ch, exclude_account_ids) is called.
SelectorCall(c, exclude) ==
    /\ last' = [LastOf("pick") EXCEPT
                   !.ch = c,
                   !.acc = pick_account_for_channel(accounts, memberships,
                                                    channels[c].type, c, exclude, clock)]
    /\ UNCHANGED <<clock, accounts, channels, memberships, posts, pp, hp, mp, opsLeft,
                   started, lockVars, poolVars, diskVars, checkVars>>

SelectorNext ==
    \/ \E c \in Channels, exclude \in SUBSET Accounts : SelectorCall(c, exclude)
    \/ Tick

InitSelector == SelectorInit /\ LockInit /\ PoolInit /\ DiskInit /\ CheckInit

SpecSelector == InitSelector /\ [][SelectorNext]_vars

\* The selector's order: accounts that are ready or not, never used or used at
\* different times, with memberships of every kind the order tells apart.
OrderRows ==
    [is_active : BOOLEAN, status : {"active", "cooldown"}, cooldown_until : {NULL},
     session_string : {"sess"}, last_used_at : {NULL, 0, 1}]

OrderInit ==
    /\ NoPassRunning
    /\ accounts \in [Accounts -> OrderRows]
    /\ channels \in [Channels -> {NewChannel(t, 0, 0) : t \in ChannelType}]
    /\ memberships \in [Accounts -> [Channels -> {NoRow, "joined", "error", "forbidden"}]]
    /\ posts = {}

InitOrder == OrderInit /\ LockInit /\ PoolInit /\ DiskInit /\ CheckInit

SpecOrder == InitOrder /\ [][SelectorNext]_vars

\* The health pass alone, over the rows that onboarding, the operator (toggle,
\* remove) and earlier passes leave: a row without session is a removed one
\* (forbidden), possibly re-enabled, possibly classified auth_required since.
HealthRows ==
    {r \in [is_active : BOOLEAN,
            status : AccountStatus,
            cooldown_until : {NULL, 1}, session_string : {"", "sess"},
            last_used_at : {NULL}] :
        /\ r.session_string = "" => (r.status \in {"forbidden", "auth_required"}
                                     /\ r.cooldown_until = NULL)
        /\ r.cooldown_until # NULL <=> r.status = "cooldown"}

HealthNext ==
    \/ HealthStart
    \/ \E k \in HealthAnswers, s \in FloodSeconds : HealthCheck(k, s)
    \/ Tick

HealthInit ==
    /\ NoPassRunning
    /\ accounts \in [Accounts -> HealthRows]
    /\ channels = [c \in Channels |-> NewChannel("public", 0, 0)]
    /\ memberships = [a \in Accounts |-> [c \in Channels |-> NoRow]]
    /\ posts = {}

InitHealth == HealthInit /\ LockInit /\ PoolInit /\ DiskInit /\ CheckInit

SpecHealth == InitHealth /\ [][HealthNext]_vars

\* Part I's specification: the scheduler and the lock over an untouched store.
InitLock == LockInit /\ StorePristine /\ PoolInit /\ DiskInit /\ CheckInit

SpecLock == InitLock /\ [][LockNext]_vars

InitPool == PoolInit /\ LockInit /\ StorePristine /\ DiskInit /\ CheckInit

SpecPool == InitPool /\ [][PoolNext]_vars

\* Identifiers as the bot UI stores them (normalize_public, normalize_invite): a
\* lower-case username without "@", or the bare invite hash.
StoredIdentifiers(type) ==
    IF type = "public" THEN {<<"n">>, <<"n", "_">>} ELSE {<<"h">>, <<"h", "-">>}

\* entity.username: None for an entity without a public username
EntityUsernames == {NoText, <<>>, <<"n">>, <<"@", "n", " ">>}

\* entity.id: no int, 0, or a positive id
EntityIds == {NULL, 0, 1, 2}

\* The parse of one message builds the row's original_url.
BuildUrl(c, identifier, username, ent_id, message_id) ==
    /\ identifier \in StoredIdentifiers(channels[c].type)
    /\ last' = [LastOf("url") EXCEPT
                    !.ch = c,
                    !.url = [type |-> channels[c].type, identifier |-> identifier,
                             username |-> username, ent_id |-> ent_id,
                             message_id |-> message_id,
                             original_url |-> build_message_url(identifier, username,
                                                                ent_id, message_id)]]
    /\ UNCHANGED <<clock, accounts, channels, memberships, posts, pp, hp, mp, opsLeft,
                   started, lockVars, poolVars, diskVars, checkVars>>

UrlNext ==
    \E c \in Channels,
       identifier \in StoredIdentifiers("public") \cup StoredIdentifiers("private"),
       username \in EntityUsernames, ent_id \in EntityIds, message_id \in MsgIds :
          BuildUrl(c, identifier, username, ent_id, message_id)

InitUrl == QuietInit /\ LockInit /\ PoolInit /\ DiskInit /\ CheckInit

SpecUrl == InitUrl /\ [][UrlNext]_vars

\* The timed maintenance pass: two channels, the first of either type; the first
\* account's membership rows in any status and just written, the second account
\* with or without a pending request for the first channel; and the passes of
\* successive ticks.
MaintNext ==
    \/ MaintStartTimed
    \/ \E u \in MaintAnswers : MaintTimed(u)
    \/ \E t \in MaintInstants : Elapse(t)

MaintStore ==
    /\ NoPassRunning
    /\ accounts = [a \in Accounts |-> NewAccount]
    /\ channels \in [1..NTickChannels ->
                        {[NewChannel(t, 0, 0) EXCEPT !.peer_id = k] :
                            t \in ChannelType, k \in 0..1}]
    /\ \A c \in DOMAIN channels : channels[c].type = "public" => channels[c].peer_id = 0
    /\ \A c \in DOMAIN channels \ {1} : channels[c].type = "public"
    /\ memberships \in [Accounts -> [1..NTickChannels -> AccountChannelStatus \cup {NoRow}]]
    /\ \A a \in Accounts \ {1}, c \in 1..NTickChannels :
          memberships[a][c] \in IF c = 1 THEN {NoRow, "join_requested"} ELSE {NoRow}
    /\ posts = {}
    /\ last_checked_at = [a \in Accounts |-> [c \in 1..NTickChannels |->
                             IF memberships[a][c] = NoRow THEN NULL ELSE 0]]
    /\ rechecked_at = [a \in Accounts |-> [c \in 1..NTickChannels |-> NULL]]

InitMaint == MaintStore /\ LockInit /\ PoolInit /\ DiskInit

SpecMaint == InitMaint /\ [][MaintNext]_vars

InitTdata == StorePristine /\ LockInit /\ PoolInit /\ UploadInit /\ CheckInit

SpecTdata == InitTdata /\ [][TdataNext]_vars

\* tick(): summary = await _update_accounts_status()
TickHealthStart(p) ==
    /\ pc[p] = "tick"
    /\ started.health = 0
    /\ HealthStart

\* tick(): parse_summary = await parse_new_posts_once()
TickParseStart(p) ==
    /\ pc[p] = "tick"
    /\ started.health = 1 /\ started.parse = 0
    /\ ParseStart

\* tick(): await _persist_tick_meta(...); main's finally follows
TickPersist(p) ==
    /\ started.health = 1 /\ started.parse = 1
    /\ hp.pc = "idle" /\ pp.pc = "idle"
    /\ TickEnd(p, TRUE)

\* One worker's first tick, from acquire_lock to release_lock, over a store of
\* NTickChannels public channels.
TickNext ==
    \/ MainAcquire(1)
    \/ MainIncr(1)
    \/ TickHealthStart(1)
    \/ \E k \in HealthAnswers, s \in FloodSeconds : HealthCheck(k, s)
    \/ TickParseStart(1)
    \/ \E u \in UpstreamAnswers : Attempt(u)
    \/ \E m \in Messages : IterNext(m)
    \/ IterEnd
    \/ \E k \in UpstreamExc, s \in FloodSeconds : IterRaise(k, s)
    \/ TickPersist(1)
    \/ MainRelease(1)

TickStore ==
    /\ NoPassRunning
    /\ accounts = [a \in Accounts |-> NewAccount]
    /\ channels = [c \in 1..NTickChannels |-> NewChannel("public", 0, 0)]
    /\ memberships = [a \in Accounts |-> [c \in 1..NTickChannels |-> NoRow]]
    /\ posts = {}

InitTick == TickStore /\ LockInit /\ PoolInit /\ DiskInit /\ CheckInit

SpecTick == InitTick /\ [][TickNext]_vars

\* Answers of upstream to the calls of ensure_joined: JoinAnswers, whose RPCError
\* stands for an RPCError outside the forbidden family of the parse pass, and
\* ChannelPrivateError, which is inside that family.
JoinServiceAnswers == JoinAnswers \cup {"ChannelPrivate"}

\* One call of ensure_joined(client=client, ch=ch, force=forced) on a stored channel.
JoinService(c, forced, ans, seconds) ==
    /\ ans = "FloodWait" \/ seconds = 0
    /\ last' = [LastOf("join") EXCEPT
                    !.ch = c, !.forced = forced, !.join = ans, !.seconds = seconds,
                    !.jr = ensure_joined(channels[c].type, channels[c].access_status,
                                         forced, ans, seconds)]
    /\ UNCHANGED <<clock, accounts, channels, memberships, posts, pp, hp, mp, opsLeft,
                   started, lockVars, poolVars, diskVars, checkVars>>

ServiceNext ==
    \E c \in Channels, forced \in BOOLEAN, ans \in JoinServiceAnswers,
       seconds \in FloodSeconds : JoinService(c, forced, ans, seconds)

\* Channels of either type in any access_status.
ServiceStore ==
    /\ NoPassRunning
    /\ accounts = [a \in Accounts |-> NewAccount]
    /\ channels \in [Channels -> {[NewChannel(t, 0, 0) EXCEPT !.access_status = st] :
                                    t \in ChannelType, st \in ChannelAccessStatus}]
    /\ memberships = [a \in Accounts |-> [c \in Channels |-> NoRow]]
    /\ posts = {}

InitService == ServiceStore /\ LockInit /\ PoolInit /\ DiskInit /\ CheckInit

SpecService == InitService /\ [][ServiceNext]_vars

\* One worker's first tick while the lock key can expire under it (time passes, the
\* refresh comes late or not at all) and a single-shot run can acquire the key and
\* stay in its own tick.
LossNext ==
    \/ MainAcquire(1)
    \/ MainIncr(1)
    \/ lock_refresher(1)
    \/ \E dt \in {interval_s, lock.ttl} : Advance(dt)
    \/ RunOnceStart(FALSE)
    \/ RunOnceIncr
    \/ TickHealthStart(1)
    \/ \E k \in HealthAnswers, s \in FloodSeconds : HealthCheck(k, s)
    \/ TickParseStart(1)
    \/ \E u \in UpstreamAnswers : Attempt(u)
    \/ \E m \in Messages : IterNext(m)
    \/ IterEnd
    \/ \E k \in UpstreamExc, s \in FloodSeconds : IterRaise(k, s)
    \/ TickPersist(1)
    \/ MainRelease(1)

InitLoss == StorePristine /\ LockInit /\ PoolInit /\ DiskInit /\ CheckInit

SpecLoss == InitLoss /\ [][LossNext]_vars

(***************************************************************************)
(* Part I: claims                                                          *)
(***************************************************************************)

\* C1: during the lifetime of one lock key (one TTL window) exactly one of the
\* processes that called acquire_lock obtained a token; every other caller got
\* None, has no tick_id for that round and is past the round without having run a
\* tick body (worker: asleep after logging the skip; single-shot: returned 2).
C1_ExactlyOneAcquirer ==
    /\ Cardinality(winners) <= 1
    /\ attempts # {} => Cardinality(winners) = 1
    /\ \A p \in attempts \ winners :
          /\ token[p] = None
          /\ tick_id[p] = None
          /\ pc[p] \in {"sleep", "idle"}
          /\ p = Once => exitCode = 2

\* Two processes raced for the key in one window: one holds it, one was skipped.
C1_Witness ==
    /\ Cardinality(attempts) >= 2
    /\ Cardinality(winners) = 1
    /\ lock.value # None

\* C2: a release or a refresh issued with token T changes the lock key only if the
\* key's value is T: otherwise (the key expired, whether or not another holder has
\* set it since) value and TTL stay as they are, and an absent key stays absent.
C2_TokenMatchedOnly ==
    [][(act'[1] \in {"release", "refresh"} /\ lock.value # act'[3]) => lock' = lock]_vars

\* A stale holder's release has just been executed while another holder's key exists.
C2_Witness ==
    /\ act[1] = "release"
    /\ lock.value # None
    /\ lock.value # act[3]
    /\ lock.ttl > 0

C4_RefreshedNoOverlap ==
    /\ \A p \in Procs : (pc[p] = "tick" /\ token[p] # None) => refresher[p] # "none"
    /\ \A p \in Procs : (pc[p] = "tick" /\ token[p] # None) => lock.value = token[p]
    /\ Cardinality({p \in Procs : pc[p] = "tick" /\ token[p] # None}) <= 1

(***************************************************************************)
(* Part II: claims                                                         *)
(***************************************************************************)

\* C5 (as claimed): no step lowers the persisted cursor_message_id of any channel,
\* whatever the stored state the parse starts from.
C5_CursorNeverDecreases ==
    [][\A c \in Channels :
          channels'[c].cursor_message_id >= channels[c].cursor_message_id]_vars

\* C6: the store never holds two post rows with one (channel_id, message_id), no
\* parse removes a row, and the count that a parse reports at its commit is the
\* number of rows that the commit added.
C6_PostIdempotence ==
    [][/\ \A r1, r2 \in posts' :
             (r1.channel_id = r2.channel_id /\ r1.message_id = r2.message_id) => r1 = r2
       /\ posts \subseteq posts'
       /\ last'.op = "commit" =>
             last'.inserted = Cardinality(posts') - Cardinality(posts)]_vars

\* A parse has committed a fetch in which upstream repeated a message id: two rows
\* were handed to the insert, one was added.
C6_Witness ==
    /\ last.op = "commit"
    /\ last.rows = 2
    /\ last.inserted = 1

\* C7 (as claimed): no channel has two memberships in join_requested or
\* pending_approval.
C7_OnePendingPerChannel ==
    \A c \in Channels :
        Cardinality({a \in Accounts : memberships[a][c] \in PendingStatuses}) <= 1

\* C8: an attempt of the parse pass that reaches the join step (private channel,
\* entity unresolved) while the picked account's own membership, or any membership
\* of the channel, is join_requested or pending_approval does not call the join
\* service, writes no membership, account or channel row, and excludes the account:
\* if the loop goes on, the account is in its excluded set.
C8_GuardrailSkipsJoin ==
    [][(/\ last'.op = "attempt"
        /\ last'.at_join
        /\ \E b \in Accounts : memberships[b][last'.ch] \in PendingStatuses)
       => (/\ ~last'.join_called
           /\ memberships' = memberships
           /\ accounts' = accounts
           /\ channels' = channels
           /\ last'.excluded
           /\ (pp'.pc = "attempt" /\ pp'.todo = pp.todo) =>
                  last'.acc \in pp'.exclude)]_vars

\* The guardrail has stopped an account other than the one whose request is pending.
C8_Witness ==
    /\ last.op = "attempt"
    /\ last.at_join
    /\ ~last.join_called
    /\ memberships[last.acc][last.ch] \notin PendingStatuses
    /\ \E b \in Accounts : memberships[b][last.ch] \in PendingStatuses
    /\ last.acc \in pp.exclude

\* C9: whatever the store, the channel and the excluded set, an account that the
\* selector returns is active, has status active, has no cooldown_until in the
\* future, has a session, is not excluded and, for a private channel, has no
\* forbidden membership of the channel.
C9_SelectorReturnsReady ==
    \A c \in Channels, exclude \in SUBSET Accounts :
        LET a == pick_account_for_channel(accounts, memberships, channels[c].type, c,
                                          exclude, clock)
        IN a # None =>
              /\ accounts[a].is_active
              /\ accounts[a].status = "active"
              /\ ~(accounts[a].cooldown_until # NULL /\ accounts[a].cooldown_until > clock)
              /\ accounts[a].session_string # ""
              /\ a \notin exclude
              /\ channels[c].type = "private" => memberships[a][c] # "forbidden"

\* The selector has returned account 2 for a private channel although account 1
\* sorts first: account 1 is in cooldown, or its membership is forbidden.
C9_Witness ==
    /\ last.op = "pick"
    /\ last.acc = 2
    /\ channels[last.ch].type = "private"
    /\ accounts[1].is_active /\ accounts[1].status = "active"
    /\ accounts[1].session_string # ""
    /\ \/ accounts[1].cooldown_until > clock
       \/ memberships[1][last.ch] = "forbidden"

\* C10: a deactivated account, in particular one quarantined as banned, stays
\* deactivated and is returned by the selector for no channel and no excluded set
\* after every step that is not an operator action: a step of a health, parse or
\* maintenance pass, or the passage of time.
C10_QuarantineSticky ==
    [][\A a \in Accounts :
          (~accounts[a].is_active /\ last'.op \notin OperatorOps)
          => /\ ~accounts'[a].is_active
             /\ \A c \in Channels, exclude \in SUBSET Accounts :
                   pick_account_for_channel(accounts', memberships', channels'[c].type,
                                            c, exclude, clock') # a]_vars

\* Account 1 is quarantined as banned, time has passed, and the parse pass has got
\* account 2 from the selector although account 1 is not excluded and sorts first.
C10_Witness ==
    /\ accounts[1].status = "banned" /\ ~accounts[1].is_active
    /\ clock > 0
    /\ last.op = "attempt" /\ last.acc = 2
    /\ pp.pc = "iter" /\ 1 \notin pp.exclude

\* C11: the selector returns the first candidate under the order (private channel:
\* a joined membership before any other; then last_used_at ascending, never-used
\* accounts first; then id ascending), and returns none exactly when there is no
\* candidate (ready, not excluded and, for a private channel, not forbidden).
C11_SelectorOrder ==
    \A c \in Channels, exclude \in SUBSET Accounts :
        LET type == channels[c].type
            ready(a) ==
                /\ accounts[a].is_active
                /\ accounts[a].status = "active"
                /\ (accounts[a].cooldown_until = NULL \/ accounts[a].cooldown_until <= clock)
                /\ accounts[a].session_string # ""
            cand == {a \in Accounts :
                        /\ ready(a)
                        /\ a \notin exclude
                        /\ type = "private" => memberships[a][c] # "forbidden"}
            rank(a) == IF type = "private" /\ memberships[a][c] # "joined" THEN 1 ELSE 0
            used(a) == accounts[a].last_used_at
            older(a, b) == \/ used(a) = NULL /\ used(b) # NULL
                           \/ used(a) # NULL /\ used(b) # NULL /\ used(a) < used(b)
            before(a, b) == \/ rank(a) < rank(b)
                            \/ rank(a) = rank(b) /\ older(a, b)
                            \/ rank(a) = rank(b) /\ used(a) = used(b) /\ a < b
            got == pick_account_for_channel(accounts, memberships, type, c, exclude, clock)
        IN /\ (got = None) <=> (cand = {})
           /\ got # None => (got \in cand /\ \A b \in cand \ {got} : before(got, b))

\* C11 witness: both accounts are ready with the same membership, account 2 was used
\* before account 1, and the selector returned account 2.
C11_Witness ==
    /\ last.op = "pick" /\ last.acc = 2
    /\ \A a \in {1, 2} : accounts[a].is_active /\ accounts[a].status = "active"
    /\ memberships[1][last.ch] = memberships[2][last.ch]
    /\ accounts[2].last_used_at = 0 /\ accounts[1].last_used_at = 1

\* C12: no post is stored, and no row is collected for the insert, whose text is
\* empty after trimming: every stored text has a character that is not whitespace.
\* A message whose text is missing, empty or whitespace-only therefore leaves no row.
C12_NoEmptyPost ==
    /\ \A r \in posts : \E i \in 1..Len(r.text) : r.text[i] # " "
    /\ \A k \in 1..Len(pp.rows) :
          \E i \in 1..Len(pp.rows[k].text) : pp.rows[k].text[i] # " "

\* C12 witness: a first parse without backfill has fetched two messages and
\* collected one row: the other message had no text to store.
C12_Witness ==
    /\ pp.pc = "iter" /\ pp.cursor = 0 /\ ~pp.backfill
    /\ pp.fetched = 2 /\ Len(pp.rows) = 1

\* C13: when an attempt starts to parse a channel whose stored cursor_message_id is
\* above 0 while no post of the channel is stored, the parse runs as a first parse:
\* its cursor is 0 and it fetches the backfill (limit 2000) when backfill_days > 0,
\* else the latest 20 messages, and not the messages above the stored cursor.
C13_CursorResync ==
    [][(pp.pc = "attempt" /\ pp'.pc = "iter") =>
          LET c == Head(pp.todo)
          IN (channels[c].cursor_message_id > 0 /\ ~(\E r \in posts : r.channel_id = c)) =>
                /\ pp'.cursor = 0
                /\ channels[c].backfill_days > 0 => (pp'.backfill /\ pp'.limit = 2000)
                /\ channels[c].backfill_days = 0 => (~pp'.backfill /\ pp'.limit = 20)]_vars

\* C13 witness: the stored cursor is 2, no post is stored, and the running parse has
\* collected message 1.
C13_Witness ==
    /\ pp.pc = "iter" /\ pp.cursor = 0 /\ pp.limit = 20
    /\ channels[Head(pp.todo)].cursor_message_id = 2
    /\ posts = {}
    /\ \E k \in 1..Len(pp.rows) : pp.rows[k].message_id = 1

\* C14: a first parse (cursor 0) of a channel with backfill_days > 0 adds no post
\* whose published_at is earlier than now - backfill_days, whatever messages
\* upstream returns and in whatever order.
C14_BackfillBound ==
    [][(pp.pc = "iter" /\ pp.cursor = 0 /\ channels[Head(pp.todo)].backfill_days > 0) =>
          \A r \in posts' \ posts : ~r.old]_vars

\* C14 witness: a backfill that met a message older than the threshold has stored
\* the one message it fetched before.
C14_Witness ==
    /\ last.op = "commit" /\ last.broke
    /\ channels[last.ch].backfill_days > 0
    /\ last.inserted = 1 /\ Cardinality(posts) = 1

\* C15: an attempt of the parse pass on a public channel makes no call of
\* get_entity_from_dialogs: not before the direct resolve, not after a failed
\* resolve, and not after a join (no join is made for a public channel).
C15_NoDialogsForPublic ==
    [][(last'.op = "attempt" /\ channels[last'.ch].type = "public") =>
          (last'.dialogs = 0 /\ ~last'.join_called)]_vars

\* C15 witness: an account resolved a public channel and is about to fetch.
C15_Witness ==
    /\ last.op = "attempt" /\ last.acc # None
    /\ channels[last.ch].type = "public"
    /\ pp.pc = "iter" /\ pp.acc = last.acc

\* C16: a successful first parse of an active public channel (cursor 0,
\* backfill_days 0) in which upstream returned messages with distinct ids and
\* non-empty text leaves a post for each id, the cursor at the highest id, the
\* channel's access_status joined, the membership of the parsing account joined and
\* the account's last_used_at set.
C16_FirstParsePublic ==
    [][(pp.pc = "iter" /\ last'.op = "commit") =>
          LET c == Head(pp.todo)
              a == pp.acc
              ids == {pp.rows[k].message_id : k \in 1..Len(pp.rows)}
          IN (/\ channels[c].type = "public" /\ channels[c].is_active
              /\ channels[c].cursor_message_id = 0 /\ channels[c].backfill_days = 0
              /\ pp.rows # <<>> /\ pp.fetched = Len(pp.rows)
              /\ Cardinality(ids) = Len(pp.rows)) =>
                 /\ \A m \in ids : \E r \in posts' : r.channel_id = c /\ r.message_id = m
                 /\ channels'[c].cursor_message_id \in ids
                 /\ \A m \in ids : m <= channels'[c].cursor_message_id
                 /\ channels'[c].access_status = "joined"
                 /\ memberships'[a][c] = "joined"
                 /\ accounts'[a].last_used_at # NULL]_vars

\* C17: when the join of a private channel, made by an account that has no
\* membership row for it, raises InviteRequestSent, the attempt leaves that
\* membership pending_approval and the channel's access_status pending_approval,
\* and stores no post.
C17_InviteRequestPending ==
    [][(/\ last'.op = "attempt" /\ last'.join = "InviteRequestSent"
        /\ channels[last'.ch].type = "private"
        /\ memberships[last'.acc][last'.ch] = NoRow) =>
          /\ memberships'[last'.acc][last'.ch] = "pending_approval"
          /\ channels'[last'.ch].access_status = "pending_approval"
          /\ posts' = posts]_vars

\* C18: when upstream raises a frozen-account error (FROZEN_METHOD_INVALID) or an
\* account ban (PhoneNumberBanned, UserDeactivatedBan) to the account that is
\* parsing a channel, in the resolve or in the fetch, the account ends banned with
\* is_active false and cooldown_until cleared, the notifier is called for it, and
\* the account is excluded so that the loop goes on with the next ready account.
C18_BanQuarantines ==
    [][(/\ last'.op \in {"attempt", "raise"}
        /\ last'.exc \in {"Frozen", "Banned"}) =>
          /\ accounts'[last'.acc].status = "banned"
          /\ ~accounts'[last'.acc].is_active
          /\ accounts'[last'.acc].cooldown_until = NULL
          /\ last'.notified
          /\ last'.excluded]_vars

\* C19: when upstream raises FloodWait(s) to the account that is parsing a channel,
\* in the resolve or in the fetch, the account ends with status cooldown and
\* cooldown_until = now + s (now is the time the pass took at its start), and
\* the account is excluded so that the loop goes on with another ready account.
C19_FloodWaitCooldown ==
    [][(/\ last'.op \in {"attempt", "raise"}
        /\ last'.exc = "FloodWait") =>
          /\ accounts'[last'.acc].status = "cooldown"
          /\ accounts'[last'.acc].cooldown_until = pp.now + last'.seconds
          /\ last'.excluded]_vars

\* C20: the account counters that a tick writes to tgparser:tick:last are those of
\* its own health pass: each of accounts_auth_required, accounts_cooldown,
\* accounts_banned and accounts_error is the number of accounts which that pass
\* put in that status.
C20_SummaryCounters ==
    [][last'.op = "health_commit" =>
          \A st \in {"auth_required", "cooldown", "banned", "error"} :
              last'.summary[IF st = "auth_required" THEN "accounts_auth_required"
                            ELSE IF st = "cooldown" THEN "accounts_cooldown"
                            ELSE IF st = "banned" THEN "accounts_banned"
                            ELSE "accounts_error"]
                  = Cardinality({a \in Accounts : last'.put[a] = st})]_vars

C24_PoolScopedUse ==
    [][/\ \A a \in Accounts :
             Cardinality({t \in Callers :
                            /\ callers'[t].acc = a
                            /\ callers'[t].pc \in {"connecting", "body", "disconnecting"}}) <= 1
       /\ \A t \in Callers :
             /\ callers'[t].pc = "body" =>
                   (entries'[callers'[t].acc].connected
                    /\ entries'[callers'[t].acc].refcount = 1)
             /\ (callers[t].pc \in {"connecting", "body", "disconnecting"}
                 /\ callers'[t].pc = "idle") =>
                   /\ entries'[callers[t].acc].refcount = 0
                   /\ ~entries'[callers[t].acc].connected
                   /\ entries'[callers[t].acc].holder # t
                   /\ callers'[t].logged => callers'[t].out = callers[t].out]_vars

\* C24 witness: caller 1's body raised and its disconnect failed (logged; the
\* caller got the body's exception); caller 2 holds the same account's lock and
\* is in its body.
C24_Witness ==
    /\ callers[1].pc = "idle" /\ callers[1].out = "exc" /\ callers[1].logged
    /\ callers[2].pc = "body" /\ callers[2].acc = 1
    /\ entries[1].holder = 2 /\ entries[2] = NoEntry

\* C25: when the attempt loop of a channel ends with the channel's access_status
\* forbidden, no account parsed the channel and the last attempt made for it
\* failed with a channel-level forbidden-family error (raised to the loop, or
\* answered to the join); a forbidden-family error of an earlier attempt followed
\* by an attempt that failed for another reason does not leave it forbidden.
C25_ForbiddenOnlyAfterLastAttempt ==
    [][(pp.pc # "idle" /\ pp.todo # <<>> /\ (pp'.pc = "idle" \/ pp'.todo # pp.todo)) =>
          LET c == Head(pp.todo)
              forbidden_family(l) ==
                  l.ch = c /\ (l.exc = "ChannelForbidden" \/ l.join = "ChatAdminRequired")
          IN channels'[c].access_status = "forbidden" =>
                /\ last'.op \in {"attempt", "raise"}
                /\ last'.acc # None => forbidden_family(last')
                /\ (last'.acc = None /\ last.op \in {"attempt", "raise"} /\ last.ch = c)
                      => forbidden_family(last)]_vars

C28_FailedTickLoopGoesOn ==
    [][\A p \in Workers :
          (pc[p] = "release" /\ raised[p] /\ pc'[p] # pc[p]) =>
             /\ lock'.value # token[p]
             /\ pc'[p] = "sleep"]_vars

C30_JoinServiceOutcomes ==
    [][last'.op = "join" =>
          LET ch == channels[last'.ch]
              ans == last'.join
              jr == last'.jr
          IN /\ accounts' = accounts /\ channels' = channels
             /\ memberships' = memberships /\ posts' = posts
             /\ (ch.type = "public" /\ ch.access_status \in {"joined", "active"}
                   /\ ~last'.forced) => (jr.ok /\ ~jr.called)
             /\ ch.type = "private" => jr.called
             /\ (jr.called /\ ans \in {"Updates(chats)", "Updates()",
                                        "UserAlreadyParticipant"})
                   => (jr.ok /\ jr.access_status = "joined")
             /\ (ch.type = "private" /\ ans = "InviteRequestSent")
                   => (~jr.ok /\ jr.access_status \in PendingStatuses)
             /\ (jr.called /\ ans \in {"ChatAdminRequired", "ChannelPrivate"})
                   => (~jr.ok /\ jr.access_status = "forbidden")
             /\ (jr.called /\ ans = "FloodWait")
                   => /\ ~jr.ok /\ jr.access_status = "error"
                      /\ jr.note = "FloodWait " \o ToString(last'.seconds) \o "s"
             /\ (jr.called /\ ans = "RPCError")
                   => (~jr.ok /\ jr.access_status = "error")]_vars

(***************************************************************************)
(* Part IV: claims                                                         *)
(***************************************************************************)

\* C31 (as claimed): the extraction of a member whose path escapes the extraction
\* root, that is a member with an absolute name or with a name that resolves above
\* the root, raises TdataArchiveError, and no file or directory is ever written
\* outside the extraction root.
C31_EscapingMemberRaises ==
    [][(tdata.pc = "extract" /\ zip # <<>>) =>
          LET name == Head(zip)
              climbs == LET n == NormComps(name, FALSE, <<>>)
                        IN n # <<>> /\ n[1] = ".."
          IN /\ (IsAbsName(name) \/ climbs) => tdata'.error = "TdataArchiveError"
             /\ \A f \in disk'.files : IsPrefix(ExtractRoot, f)]_vars

\* C31 (as the code has it): nothing is ever written outside the extraction root;
\* a member whose relative name resolves above the root raises TdataArchiveError
\* and writes nothing, what earlier members wrote staying in place; a member with
\* an absolute name made of plain components is not refused: it is extracted under
\* the root, at the path its name has without the leading slashes; and when the
\* extraction is over, a non-empty directory tdata at the root is returned, or,
\* when the root has no directory tdata, the one non-empty tdata directory that is
\* one level down.
C31_TraversalRaisesAbsoluteRerooted ==
    [][/\ \A f \in disk'.files : IsPrefix(ExtractRoot, f) /\ f # ExtractRoot
       /\ \A d \in disk'.dirs : IsPrefix(ExtractRoot, d) \/ IsPrefix(d, ExtractRoot)
       /\ (tdata.pc = "extract" /\ zip # <<>>) =>
             LET name == Head(zip)
                 rel == NormComps(name, FALSE, <<>>)
                 plain == \A k \in 1..Len(name) : name[k] # "\\.."
             IN /\ (~IsAbsName(name) /\ rel # <<>> /\ rel[1] = "..") =>
                      (tdata'.error = "TdataArchiveError" /\ disk' = disk)
                /\ (IsAbsName(name) /\ plain) =>
                      /\ tdata'.error # "TdataArchiveError"
                      /\ (tdata'.error = "none" /\ ~is_dir(name)) =>
                            ExtractRoot \o NormComps(name, TRUE, <<>>) \in disk'.files
       /\ (tdata.pc = "extract" /\ zip = <<>> /\ tdata' # tdata) =>
             LET top == Append(ExtractRoot, "tdata")
                 filled(d) == \E p \in disk.dirs \cup disk.files :
                                 Len(p) = Len(d) + 1 /\ IsPrefix(d, p)
                 nested == {d \in disk.dirs : Len(d) = Len(ExtractRoot) + 2
                                              /\ IsPrefix(ExtractRoot, d)
                                              /\ d[Len(d)] = "tdata"}
             IN /\ (top \in disk.dirs /\ filled(top)) =>
                      (tdata'.pc = "returned" /\ tdata'.path = top)
                /\ (top \notin disk.dirs /\ \E d \in nested : nested = {d} /\ filled(d)) =>
                      (tdata'.pc = "returned" /\ tdata'.path \in nested)
                /\ tdata'.pc = "returned" =>
                      (tdata'.path \in disk.dirs /\ filled(tdata'.path)
                       /\ IsPrefix(ExtractRoot, tdata'.path))]_vars

\* C31 witness: the first member of an archive was extracted under the root, the
\* second one, "../tdata", raised TdataArchiveError.
C31_Witness ==
    /\ tdata.pc = "raised" /\ tdata.error = "TdataArchiveError"
    /\ tdata.member = <<"..", "tdata">>
    /\ disk.files = {<<"out", "tdata", "key_datas">>}

\* C32 (as claimed): for a membership that is join_requested or pending_approval,
\* the maintenance pass never calls the join service; it enumerates the dialogs
\* for that account and channel only when last_checked_at + 6h <= now, and never
\* sooner than 6 hours after it last enumerated them for that membership; and it
\* upgrades the membership to joined when the entity is found in the dialogs.
C32_PendingRecheckedOncePerWindow ==
    [][(mp.pc = "channel" /\ last'.op = "maintenance" /\ last'.acc # None
        /\ memberships[last'.acc][last'.ch] \in PendingStatuses) =>
          LET a == last'.acc
              c == last'.ch
          IN /\ ~last'.join_called
             /\ last'.upstream =>
                   should_recheck(last_checked_at[a][c],
                                  JOIN_REQUEST_DIALOGS_RECHECK_EVERY, mp.now)
             /\ (last'.upstream /\ rechecked_at[a][c] # NULL) =>
                   rechecked_at[a][c] + JOIN_REQUEST_DIALOGS_RECHECK_EVERY <= mp.now
             /\ memberships'[a][c] =
                   IF last'.found THEN "joined" ELSE memberships[a][c]]_vars

\* C33 (as claimed): within one maintenance pass, once the account of the pass has
\* been marked cooldown or auth_required at one channel, the pass makes no upstream
\* call with that account at any later channel.
C33_MarkedAccountNotUsedAgain ==
    [][(mp.pc = "channel" /\ last'.op = "maintenance" /\ mp.acc # None
        /\ accounts[mp.acc].status \in {"cooldown", "auth_required"}) =>
          ~last'.upstream]_vars

C35_FloodWaitAtAnyStep ==
    [][(/\ last'.op \in {"attempt", "raise"} /\ last'.acc # None
        /\ (last'.exc = "FloodWait" \/ last'.join = "FloodWait")) =>
          /\ accounts'[last'.acc].status = "cooldown"
          /\ accounts'[last'.acc].cooldown_until = pp.now + last'.seconds
          /\ \A c \in DOMAIN channels, t \in ChannelType :
                pick_account_for_channel(accounts', memberships', t, c, {}, clock')
                    # last'.acc]_vars

\* C36 (as claimed): no step of a health, parse or maintenance pass changes an
\* account's status from cooldown to active while its cooldown_until is in the
\* future.
C36_CooldownEndsAtExpiry ==
    [][\A a \in Accounts :
          (/\ last'.op \notin {"time", "acc_toggle", "acc_remove", "reauth"}
           /\ accounts[a].status = "cooldown"
           /\ accounts'[a].status = "active") =>
             (accounts[a].cooldown_until # NULL /\ accounts[a].cooldown_until <= clock)]_vars

\* C37 (as claimed): every write that sets an account's status to cooldown sets
\* its cooldown_until strictly later than the time of the write.
C37_CooldownUntilInFuture ==
    [][\A a \in Accounts :
          (/\ accounts'[a].status = "cooldown"
           /\ accounts'[a] # accounts[a]) =>
             (accounts'[a].cooldown_until # NULL /\ accounts'[a].cooldown_until > clock')]_vars

\* C38 (as claimed): the original_url of a post is https://t.me/<username>/<id>
\* for a public channel, https://t.me/c/<entity id>/<id> for a private channel
\* whose entity has a numeric id > 0, and empty otherwise; the invite hash of a
\* private channel is no part of the URL.
C38_MessageUrl ==
    [][last'.op = "url" =>
          LET r == last'.url
              name == IF r.username \in {NoText, <<>>} THEN r.identifier
                      ELSE LStrip(RStrip(lstrip_at(r.username)))
              id == ToString(r.message_id)
          IN /\ r.type = "public" =>
                   r.original_url = <<"https://t.me/">> \o name \o <<"/", id>>
             /\ r.type = "private" =>
                   /\ r.original_url =
                         IF r.ent_id # NULL /\ r.ent_id > 0
                         THEN <<"https://t.me/c/", ToString(r.ent_id), "/", id>>
                         ELSE <<>>
                   /\ \A k \in 1..Len(r.original_url) :
                         r.original_url[k] \notin {"h", "-"}]_vars

\* C39: the posts of a parse step and the advance of the cursor are committed
\* together or not at all.  While messages are fetched nothing is written; a
\* failure of the fetch leaves posts, cursor_message_id and access_status as they
\* were; only the commit changes posts or a cursor, and after it every post of
\* the channel has message_id <= cursor_message_id.
C39_PostsAndCursorTogether ==
    [][/\ last'.op # "commit" =>
             /\ posts' = posts
             /\ \A c \in DOMAIN channels :
                   channels'[c].cursor_message_id = channels[c].cursor_message_id
       /\ (pp.pc = "iter" /\ last'.op \in {"iter", "raise"}) =>
             channels'[Head(pp.todo)].access_status
                = channels[Head(pp.todo)].access_status
       /\ (pp.pc = "iter" /\ last'.op = "commit") =>
             \A r \in posts' :
                 r.channel_id = Head(pp.todo) =>
                    r.message_id <= channels'[Head(pp.todo)].cursor_message_id]_vars

\* C39 witness: a commit has stored two posts and set the cursor to the newer one.
C39_Witness ==
    /\ last.op = "commit" /\ last.inserted = 2
    /\ channels[1].cursor_message_id = MaxMsgId
    /\ \E r \in posts : r.channel_id = 1 /\ r.message_id = MaxMsgId

\* C40 (as claimed): tick ids are unique and strictly increasing in the order of
\* their allocation, and the tick_id recorded in tgparser:tick:last never
\* decreases.
C40_LastTickNeverDecreases ==
    [][/\ \A p \in Procs :
             (tick_id'[p] # tick_id[p] /\ tick_id'[p] # None) =>
                /\ tick_id'[p] = seq' /\ seq' > seq
                /\ \A q \in Procs : tick_id'[p] > tick_id[q]
       /\ (lastTick # None /\ lastTick' # lastTick) => lastTick' > lastTick]_vars

====
